---- MODULE Spec2Model ----
(***************************************************************************)
(* Marcumat.js ripple ("wave") engine.                                     *)
(*                                                                         *)
(* The repository holds several variants of the same engine:               *)
(*   "hardened"  src/src/wave-effect.ts, lines 464-1194 (CSS-driven        *)
(*               durations, fade-offset, nodes appended to the surface);   *)
(*   "overlay"   src/unnamed/part_002 (per-surface overlay, recycled       *)
(*               nodes stay attached);                                     *)
(*   legacy      src/unnamed/part_000 (wake-effect.js, global limiter).    *)
(* The engine specification Spec models the hardened and the overlay       *)
(* variant (variable variant); FairSpec is the engine with the fallback    *)
(* timer of a fade firing; the legacy variant has its own variables and    *)
(* its specification SpecLegacy; SpecColor is the colour resolution        *)
(* (getRippleColor), which the builds share.                               *)
(***************************************************************************)
EXTENDS Integers, Sequences, FiniteSets, TLC

\* ---------------------------------------------------------------- bounds
\* Ripple nodes ever cloned from the template (the most any environment allows).
MaxNodes == 3
\* Tasks waiting in the scheduler queue.
MaxQueue == 2
\* Closures of one kind (fade invocations, release listeners, timers) alive at once.
MaxPending == 3

\* ------------------------------------------------------- generic helpers
Min2(a, b) == IF a < b THEN a ELSE b
Max2(a, b) == IF a > b THEN a ELSE b

Range(s) == {s[i] : i \in 1..Len(s)}

\* s without every occurrence of x, order kept.
SeqWithout(s, x) == SelectSeq(s, LAMBDA y : y # x)

\* s without its i-th element.
DropAt(s, i) == SubSeq(s, 1, i - 1) \o SubSeq(s, i + 1, Len(s))

\* A JS Set kept in insertion order: adding a member again changes nothing.
\* F applied to the value of v: v is computed once, however often F reads it, also
\* where an action is evaluated for ENABLED.
Bind(v, F(_)) == CHOOSE r \in {F(x) : x \in {v}} : TRUE

SetAdd(s, x) == IF x \in Range(s) THEN s ELSE Append(s, x)

\* ------------------------------------------------------------------- DOM
\* The document the engine runs in:
\*   body > P[wave] > D[wave-delegate] > T[wave]
\*          P > X (a child of P laid out outside P's box)
\*   body > Y (plain element)
Body == "body"
Elems == {"P", "D", "T", "X", "Y"}
Surfaces == {"P", "T"}

ParentElement(e) ==
  CASE e = "P" -> Body
    [] e = "D" -> "P"
    [] e = "T" -> "D"
    [] e = "X" -> "P"
    [] e = "Y" -> Body
    [] OTHER -> "none"

HasWave(e) == e \in Surfaces

\* el.querySelector(el.getAttribute('wave-delegate')), "none" without the attribute.
DelegateTargetOf(e) == IF e = "D" THEN "T" ELSE "none"

\* getBoundingClientRect, in client coordinates.
RectOf(e) ==
  CASE e = "P" -> [left |-> 0, top |-> 0, width |-> 8, height |-> 4]
    [] e = "D" -> [left |-> 2, top |-> 1, width |-> 4, height |-> 2]
    [] e = "T" -> [left |-> 3, top |-> 1, width |-> 2, height |-> 2]
    [] e = "X" -> [left |-> 9, top |-> 1, width |-> 2, height |-> 2]
    [] OTHER   -> [left |-> 12, top |-> 0, width |-> 2, height |-> 2]

Depth(e) ==
  CASE e = "P" -> 1
    [] e = "D" -> 2
    [] e = "T" -> 3
    [] e = "X" -> 2
    [] OTHER   -> 1

InRect(pt, r) ==
  /\ r.left <= pt[1] /\ pt[1] < r.left + r.width
  /\ r.top <= pt[2] /\ pt[2] < r.top + r.height

\* Pointer positions (clientX, clientY) the model's pointer events carry.
Points == {<<1, 0>>, <<2, 2>>, <<3, 1>>, <<9, 1>>, <<12, 1>>}

\* The event target: the deepest element whose box holds the point.
HitTest(pt) ==
  CHOOSE e \in Elems :
    /\ InRect(pt, RectOf(e))
    /\ \A f \in Elems : InRect(pt, RectOf(f)) => Depth(f) <= Depth(e)

\* e and its ancestors below body, nearest first.
RECURSIVE AncestorChain(_)
AncestorChain(e) ==
  IF e \notin Elems THEN <<>> ELSE <<e>> \o AncestorChain(ParentElement(e))

\* target.closest('[wave]'), "none" when there is none.
ClosestWave(e) ==
  LET ch == AncestorChain(e)
      hits == {i \in 1..Len(ch) : HasWave(ch[i])}
  IN IF hits = {} THEN "none"
     ELSE ch[CHOOSE i \in hits : \A j \in hits : i <= j]

\* Surfaces in the subtree of e (e included), in document order.
SubtreeSurfaces(e) ==
  CASE e = "P" -> <<"T", "P">>
    [] e = "T" -> <<"T">>
    [] OTHER   -> <<>>


\* ---------------------------------------------------------------- engine
\* Engine state (hardened and overlay variants).
VARIABLES
  env,            \* the environment the engine runs in (see Environments)
  variant,        \* "hardened" | "overlay": which build runs
  perf,           \* PERF_LEVEL, detected once at load
  upgraded,       \* elements carrying SURFACE_CLASS
  hasData,        \* elements with an elData entry
  overlay,        \* surfaces whose overlay layer exists (overlay variant)
  pool,           \* elData(el).pool, a stack of idle nodes, per surface
  active,         \* activeRipples.get(el), a Set in insertion order, per surface
  children,       \* ripple nodes attached under each surface, in DOM order
  cls,            \* classList of each node (animating, fading, recycled)
  style,          \* names of the inline style properties each node carries
  nextNode,       \* nodes cloned from _tpl so far
  q,              \* scheduler queue
  rafId,          \* TRUE while the scheduler's frame callback is requested
  rafRequests,    \* frame callbacks that schedule requested and that have not run
  anim,           \* nodes whose requestAnimationFrame(animating) callback is pending
  fades,          \* fadeOutAndRemoveRipple invocations whose fallback timer is pending
  ends,           \* endRipple closures registered on surfaces
  keyTimers,      \* keyboard fade timers pending
  delayed,        \* delayed fade timers set by endRipple (hardened)
  fwds,           \* forwardEndRipple closures registered on delegating ancestors
  delegateActive, \* elements whose _ripple_delegate_active flag is true
  rapid,          \* the rapid-gesture flag that onPointerDown reads
  scrollTimers,   \* pending timers of onScroll that clear the flag
  timing,         \* what readTimingFromCSS returns: expansionDuration, fadeOffset (ms)
  pointer,        \* where the primary pointer went down, <<>> while it is up
  RIPPLE_FADE_DURATION, \* the module-level fade duration of the overlay variant (ms)
  lastEvent,      \* history: the input event handled last, and what its handler did
  lastFrame,      \* history: the ripples the last frame callback created
  ran             \* history: the tasks the last frame callback ran, in order

engineVars ==
  <<env, variant, perf, upgraded, hasData, overlay, pool, active, children, cls, style,
    nextNode, q, rafId, rafRequests, anim, fades, ends, keyTimers, delayed, fwds,
    delegateActive, rapid, scrollTimers, timing, pointer, RIPPLE_FADE_DURATION,
    lastEvent, lastFrame, ran>>

\* Legacy engine state (src/unnamed/part_000).
VARIABLES
  now,                     \* performance.now(), in ms
  lastGlobalRippleTime,    \* time of the last activation the global limiter let pass
  globalActiveWavesCount,  \* the global limiter's count of live ripples
  lastAllowed,             \* per surface: lastAllowed.get(el) || 0
  activeRipples,           \* per surface: the pointer ripple held, 0 for null
  surfaceClass,            \* elements carrying SURFACE_CLASS, listeners registered
  wakeNodes,               \* per span created: the surface it is attached to, its classes
  wakeNext,                \* spans created so far
  wakeAnim,                \* spans whose requestAnimationFrame callback is pending
  wakeEnds,                \* endRipple closures registered on their surface
  timeouts                 \* pending setTimeout callbacks, each with the time it is due

legacyVars ==
  <<now, lastGlobalRippleTime, globalActiveWavesCount, lastAllowed, activeRipples,
    surfaceClass, wakeNodes, wakeNext, wakeAnim, wakeEnds, timeouts>>

\* Colour resolution state (getRippleColor and its per-surface cache).
VARIABLES
  clock,          \* now(), in ms
  dataColor,      \* the surface's data-ripple-color attribute, "absent" or a string
  waveAttr,       \* the value of the surface's wave attribute, a string
  declared,       \* --ripple-default-color as declared on each node of the chain
  colorStamp,     \* d._colorStamp, 0 for undefined
  colorCache,     \* d.color ("null" for a cached miss)
  resolved        \* history: the last getRippleColor call and what it returned

colorVars == <<clock, dataColor, waveAttr, declared, colorStamp, colorCache, resolved>>

\* Geometry: the element measured last and the coverage radius computed for it.
VARIABLES
  measured        \* build, rect.width, rect.height, p.x, p.y and the radius returned

\* Gradient: computeGradient, its cache and what it returned last.
VARIABLES
  painted         \* build, the page's colour, now(), computeGradient._map, the result

calcVars == <<measured, painted>>

\* Start-up glue: the settings loader (autoLoadWaveSettingJSON).
VARIABLES
  loader,         \* the loader's flag, its search, and the calls made to its callback
  host            \* the elements the host attaches with attachWave (older copy)

glueVars == <<loader, host>>

Nodes == 1..MaxNodes
\* Room for the clones of a frame callback that the bound on nodes then rejects.
NodeIds == 1..(MaxNodes + MaxQueue)
Variants == {"hardened", "overlay"}
PerfLevels == {"low", "medium", "high"}
ReleaseTypes == {"pointerup", "pointerleave", "touchend", "touchcancel"}
\* pointerleave is the one release event that does not bubble.
Bubbles(type) == type # "pointerleave"

NoEvent == [kind |-> "none", primary |-> FALSE, rapid |-> FALSE, queued |-> "none"]

\* The engine state as one value, so that a handler is a function of it.
W ==
  [env |-> env, variant |-> variant, perf |-> perf, upgraded |-> upgraded, hasData |-> hasData,
   overlay |-> overlay, pool |-> pool, active |-> active, children |-> children,
   cls |-> cls, style |-> style, nextNode |-> nextNode, q |-> q, rafId |-> rafId,
   rafRequests |-> rafRequests,
   anim |-> anim, fades |-> fades, ends |-> ends, keyTimers |-> keyTimers,
   delayed |-> delayed, fwds |-> fwds, delegateActive |-> delegateActive,
   rapid |-> rapid, scrollTimers |-> scrollTimers, timing |-> timing,
   pointer |-> pointer, RIPPLE_FADE_DURATION |-> RIPPLE_FADE_DURATION,
   lastEvent |-> NoEvent,
   lastFrame |-> <<>>, ran |-> <<>>, ret |-> 0, threw |-> FALSE]

Commit(w) ==
  \E x \in {w} :
    /\ env' = x.env /\ variant' = x.variant /\ perf' = x.perf
    /\ upgraded' = x.upgraded /\ hasData' = x.hasData /\ overlay' = x.overlay
    /\ pool' = x.pool /\ active' = x.active /\ children' = x.children
    /\ cls' = x.cls /\ style' = x.style /\ nextNode' = x.nextNode
    /\ q' = x.q /\ rafId' = x.rafId /\ rafRequests' = x.rafRequests /\ anim' = x.anim
    /\ fades' = x.fades /\ ends' = x.ends /\ keyTimers' = x.keyTimers
    /\ delayed' = x.delayed /\ fwds' = x.fwds /\ delegateActive' = x.delegateActive
    /\ rapid' = x.rapid /\ scrollTimers' = x.scrollTimers /\ timing' = x.timing
    /\ pointer' = x.pointer /\ RIPPLE_FADE_DURATION' = x.RIPPLE_FADE_DURATION
    /\ lastEvent' = x.lastEvent /\ lastFrame' = x.lastFrame /\ ran' = x.ran
    /\ UNCHANGED <<legacyVars, colorVars, calcVars, glueVars>>

\* The state stays within the bounds of its environment.
Bounded(w) ==
  \E x \in {w} :
    /\ x.nextNode <= x.env.nodes
    /\ Len(x.fades) <= x.env.pending
    /\ Len(x.ends) <= x.env.pending
    /\ Len(x.keyTimers) <= x.env.timers
    /\ Len(x.delayed) <= x.env.timers
    /\ Len(x.fwds) <= x.env.timers
    /\ x.scrollTimers <= x.env.scrolls
    /\ Len(x.q) <= x.env.queue

\* --------------------------------------------------------- configuration
MAX_RIPPLES_PER_ELEMENT(v) == IF v = "hardened" THEN 1 ELSE 2

getMaxRipples(w) ==
  IF w.perf = "low" THEN 1
  ELSE IF w.perf = "medium" THEN 2
  ELSE MAX_RIPPLES_PER_ELEMENT(w.variant)

\* Fallback expansion duration of the hardened variant, in ms.
FALLBACK_BASE_DURATION == 400
\* BASE_DURATION of the overlay variant, in ms.
OVERLAY_BASE_DURATION == 2500

\* The timing of an element whose style declares none of the --ripple-* properties.
\* FALLBACK_FADE_DURATION of the hardened variant, in ms: the fade duration of an
\* element whose style declares no --ripple-fade-duration.
FALLBACK_FADE_DURATION == 800

DefaultTiming ==
  [expansionDuration |-> FALLBACK_BASE_DURATION, fadeDuration |-> FALLBACK_FADE_DURATION,
   fadeOffset |-> 0]

\* scaledDuration: the nominal expansion duration of a ripple.
scaledDuration(w) ==
  IF w.variant = "hardened" THEN Max2(120, w.timing.expansionDuration)
  ELSE Max2(120, OVERLAY_BASE_DURATION)

\* desiredStart: the fade-start point of the hardened variant, ms into the expansion.
desiredStart(w) == Max2(0, scaledDuration(w) - Max2(0, w.timing.fadeOffset))

\* A keyboard timer with the same lead of 120 ms in every variant.
keyFadeDelay_fixedLead(w) == Max2(120, scaledDuration(w) - 120)

\* The delay of the timer that the keyboard task arms.
keyFadeDelay(w) ==
  IF w.variant = "hardened" THEN Max2(120, desiredStart(w) + 20)
  ELSE Max2(120, scaledDuration(w) - 120)

\* classList and inline style of a fresh clone of _tpl ('ripple' itself is on every node).
TemplateCls(v) == IF v = "hardened" THEN {} ELSE {"recycled"}
TemplateStyle(v) == IF v = "hardened" THEN {"display"} ELSE {}

\* The properties that the activation's style.cssText assignment writes.
CssTextProps(v) ==
  IF v = "hardened"
  THEN {"display", "position", "border-radius", "pointer-events", "width", "height",
        "left", "top", "--ripple-duration", "--ripple-fade-duration",
        "--ripple-final-scale", "background", "transform", "backface-visibility",
        "box-shadow"}
  ELSE {"position", "border-radius", "pointer-events", "width", "height", "left",
        "top", "--ripple-duration", "--ripple-final-scale", "background", "transform",
        "backface-visibility", "box-shadow", "visibility", "opacity"}

\* The properties getRippleNode removes (overlay variant; the hardened one removes none).
AcquireRemovedProps(v) ==
  IF v = "hardened" THEN {}
  ELSE {"transition", "transform", "opacity", "will-change", "left", "top", "width",
        "height", "background", "--ripple-duration", "--ripple-final-scale"}

AcquireRemovedCls(v) ==
  IF v = "hardened" THEN {"animating", "fading"} ELSE {"animating", "fading", "recycled"}

\* ------------------------------------------------------------- node pool
getElData(w, el) == [w EXCEPT !.hasData = @ \cup {el}]

\* ripple.parentNode: the surface the node hangs under ("none" when detached).  In
\* the overlay variant the parent is that surface's overlay layer.
NodeParent(w, n) ==
  IF \E s \in Surfaces : n \in Range(w.children[s])
  THEN CHOOSE s \in Surfaces : n \in Range(w.children[s])
  ELSE "none"

\* getRippleNode that leaves the classes of the node's prior use on it.
getRippleNode_keepClasses(w, el) ==
  LET fromPool == w.pool[el] # <<>>
      n == IF fromPool THEN w.pool[el][Len(w.pool[el])] ELSE w.nextNode + 1
      w1 == IF fromPool
            THEN [w EXCEPT !.hasData = @ \cup {el}, !.pool[el] = SubSeq(@, 1, Len(@) - 1)]
            ELSE [w EXCEPT !.hasData = @ \cup {el}, !.nextNode = n,
                           !.cls[n] = TemplateCls(w.variant),
                           !.style[n] = TemplateStyle(w.variant)]
  IN [w1 EXCEPT !.ret = [node |-> n, fromPool |-> fromPool,
                         cls |-> w1.cls[n], style |-> w1.style[n]]]

getRippleNode(w, el) ==
  LET w0 == getElData(w, el)
      fromPool == w0.pool[el] # <<>>
      n == IF fromPool THEN w0.pool[el][Len(w0.pool[el])] ELSE w0.nextNode + 1
      w1 == IF fromPool
            THEN [w0 EXCEPT !.pool[el] = SubSeq(@, 1, Len(@) - 1)]
            ELSE [w0 EXCEPT !.nextNode = n,
                            !.cls[n] = TemplateCls(w.variant),
                            !.style[n] = TemplateStyle(w.variant)]
      w2 == [w1 EXCEPT !.cls[n] = @ \ AcquireRemovedCls(w.variant),
                       !.style[n] = @ \ AcquireRemovedProps(w.variant)]
  IN [w2 EXCEPT !.ret = [node |-> n, fromPool |-> fromPool,
                         cls |-> w2.cls[n], style |-> w2.style[n]]]

\* releaseRippleNode that pushes the node whatever the size of the pool.
releaseRippleNode_always(w, el, n) ==
  [w EXCEPT !.cls[n] = @ \ {"animating", "fading"},
            !.style[n] = @ \cup {"opacity"},
            !.children[el] = SeqWithout(@, n),
            !.hasData = @ \cup {el},
            !.pool[el] = Append(@, n)]

\* hardened: src/src/wave-effect.ts releaseRippleNode
releaseRippleNode(w, el, n) ==
  LET w1 == [w EXCEPT !.cls[n] = @ \ {"animating", "fading"},
                      !.style[n] = @ \cup {"opacity"},
                      \* if (node.parentNode === el) el.removeChild(node)
                      !.children[el] = SeqWithout(@, n)]
      w2 == getElData(w1, el)
  IN IF Len(w2.pool[el]) < getMaxRipples(w2)
     THEN [w2 EXCEPT !.pool[el] = Append(@, n)]
     ELSE w2

\* overlay: src/unnamed/part_002 recycleRippleNode; the node stays in the overlay.
recycleRippleNode(w, el, n) ==
  LET w1 == [w EXCEPT !.cls[n] = (@ \ {"animating", "fading"}) \cup {"recycled"},
                      !.style[n] = (@ \cup {"opacity", "visibility"}) \ {"will-change"}]
      w2 == getElData(w1, el)
  IN IF Len(w2.pool[el]) < getMaxRipples(w2)
     THEN [w2 EXCEPT !.pool[el] = Append(@, n)]
     ELSE w2

\* ------------------------------------------------------------------ fade
\* The duration a fade starts with, in ms.  The overlay variant reads the module-level
\* RIPPLE_FADE_DURATION; the hardened variant takes the value readTimingFromCSS
\* returned, or the node's computed --ripple-fade-duration, which the node inherits
\* from the same declaration.
fadeDurationOf(w) ==
  IF w.variant = "overlay" THEN w.RIPPLE_FADE_DURATION ELSE w.timing.fadeDuration

fadeOutAndRemoveRipple(w, n, el) ==
  [w EXCEPT !.cls[n] = @ \cup {"fading"},
            !.style[n] = @ \cup (IF w.variant = "overlay"
                                 THEN {"--ripple-fade-duration", "will-change"}
                                 ELSE {"--ripple-fade-duration"}),
            !.fades = Append(@, [node |-> n, el |-> el, removed |-> FALSE, runs |-> 0,
                                 duration |-> fadeDurationOf(w)])]

\* A cleanup without the removed flag: it runs for the completion event and for the
\* fallback timer alike.
doCleanup_unguarded(w, i) ==
  LET f == w.fades[i]
      w1 == [w EXCEPT !.fades[i].removed = TRUE, !.fades[i].runs = @ + 1]
  IN IF w.variant = "hardened"
     THEN releaseRippleNode(
            [w1 EXCEPT !.active[f.el] = SeqWithout(@, f.node)], f.el, f.node)
     ELSE [recycleRippleNode(w1, f.el, f.node) EXCEPT
             !.active[f.el] = SeqWithout(@, f.node)]

\* The cleanup of fade invocation i (hardened: the body of onEnd; overlay: doCleanup).
\* runs is a history counter: how often this invocation's cleanup body has run.
doCleanup(w, i) ==
  LET f == w.fades[i]
  IN IF f.removed THEN w
     ELSE LET w1 == [w EXCEPT !.fades[i].removed = TRUE, !.fades[i].runs = @ + 1]
          IN IF w.variant = "hardened"
             THEN releaseRippleNode(
                    [w1 EXCEPT !.active[f.el] = SeqWithout(@, f.node)], f.el, f.node)
             ELSE LET w2 == recycleRippleNode(w1, f.el, f.node)
                  IN [w2 EXCEPT !.active[f.el] = SeqWithout(@, f.node)]

\* onEnd(e): e is a transitionend event with propertyName prop, or absent ("timer").
onEnd(w, i, prop) ==
  IF prop = "timer" \/ prop = "opacity" THEN doCleanup(w, i) ELSE w

\* el.querySelectorAll('.ripple'): every ripple node under el, nested surfaces included.
RECURSIVE RipplesUnder(_, _)
RipplesUnder(w, ss) ==
  IF ss = <<>> THEN <<>> ELSE w.children[Head(ss)] \o RipplesUnder(w, Tail(ss))

RECURSIVE FadeAll(_, _, _)
FadeAll(w, ns, el) ==
  IF ns = <<>> THEN w
  ELSE FadeAll(fadeOutAndRemoveRipple(w, Head(ns), el), Tail(ns), el)

\* A closure that captured el's Set object no longer holds the current one.
Orphan(cs, el) ==
  [i \in 1..Len(cs) |-> IF cs[i].el = el THEN [cs[i] EXCEPT !.cur = FALSE] ELSE cs[i]]

\* clearRipples that leaves the surface's Set object in place.
clearRipples_keepSet(w, el) ==
  FadeAll(w, RipplesUnder(w, SubtreeSurfaces(el)), el)

clearRipples(w, el) ==
  LET w1 == FadeAll(w, RipplesUnder(w, SubtreeSurfaces(el)), el)
  IN [w1 EXCEPT !.active[el] = <<>>,
                !.ends = Orphan(@, el),
                !.keyTimers = Orphan(@, el),
                !.delayed = Orphan(@, el)]


\* ------------------------------------------------------------- scheduler
\* A function handed to schedule: the task of a pointer activation ("ptr") or of a
\* keyboard activation ("key") on el at point p, or a probe, which stands for any
\* function: it may schedule a further task while it runs, and may throw.
Task(kind, el, p, dlg) ==
  [kind |-> kind, el |-> el, p |-> p, dlg |-> dlg, id |-> 0, throws |-> FALSE,
   spawn |-> FALSE]

Probe(id, throws, spawn) ==
  [kind |-> "probe", el |-> "none", p |-> <<>>, dlg |-> FALSE, id |-> id,
   throws |-> throws, spawn |-> spawn]

\* schedule that requests a frame on every call.
schedule_always(w, fn) ==
  [w EXCEPT !.q = Append(@, fn), !.rafId = TRUE, !.rafRequests = @ + 1]

\* schedule(fn): q.push(fn); if (!rafId) rafId = requestAnimationFrame(...)
schedule(w, fn) ==
  [w EXCEPT !.q = Append(@, fn), !.rafId = TRUE,
            !.rafRequests = IF w.rafId THEN @ ELSE @ + 1]

createOverlayIfNeeded(w, el) == [getElData(w, el) EXCEPT !.overlay = @ \cup {el}]

\* appendChild moves a node that is attached elsewhere.
appendChild(w, el, n) ==
  [w EXCEPT !.children = [s \in Surfaces |->
       IF s = el THEN Append(SeqWithout(w.children[s], n), n)
       ELSE SeqWithout(w.children[s], n)]]

\* The task that onPointerDown schedules.
pointerTask(w, t) ==
  LET el == t.el
      w1 == IF Len(w.active[el]) >= getMaxRipples(w)
            THEN fadeOutAndRemoveRipple(w, Head(w.active[el]), el)
            ELSE w
      w2 == IF w.variant = "overlay" THEN createOverlayIfNeeded(w1, el) ELSE w1
  IN Bind(getRippleNode(w2, el), LAMBDA w3 :
       LET n == w3.ret.node
           w4 == [w3 EXCEPT !.style[n] = CssTextProps(w.variant)]
           w5 == appendChild(w4, el, n)
       IN [w5 EXCEPT
        !.active[el] = SetAdd(@, n),
        !.anim = @ \cup {n},
        !.ends = Append(@, [el |-> el, node |-> n, cur |-> TRUE, types |-> ReleaseTypes]),
        !.lastFrame = Append(@, [kind |-> "ptr", el |-> el, node |-> n, p |-> t.p,
                                 dlg |-> t.dlg, ret |-> w3.ret,
                                 attached |-> w4.style[n]])])

\* The task that onKeyDown schedules: no cap check, fade by timer.
keyTask(w, t) ==
  LET el == t.el
      w3 == getRippleNode(w, el)
      n == w3.ret.node
      w4 == [w3 EXCEPT !.style[n] = CssTextProps(w.variant)]
      w5 == IF w.variant = "overlay" THEN createOverlayIfNeeded(w4, el) ELSE w4
      w6 == appendChild(w5, el, n)
      r == RectOf(el)
  IN [w6 EXCEPT
        !.active[el] = SetAdd(@, n),
        !.anim = @ \cup {n},
        !.keyTimers = Append(@, [el |-> el, node |-> n, cur |-> TRUE,
                                 delay |-> keyFadeDelay(w)]),
        !.lastFrame = Append(@, [kind |-> "key", el |-> el, node |-> n,
                                 p |-> <<r.width \div 2, r.height \div 2>>,
                                 dlg |-> FALSE, ret |-> w3.ret,
                                 attached |-> w4.style[n]])]

probeTask(w, t) ==
  LET w1 == IF t.spawn THEN schedule(w, Probe(t.id + 10, FALSE, FALSE)) ELSE w
  IN [w1 EXCEPT !.threw = t.throws]

RunTask(w, t) ==
  CASE t.kind = "ptr" -> pointerTask(w, t)
    [] t.kind = "key" -> keyTask(w, t)
    [] OTHER -> probeTask(w, t)

\* A frame callback without the try/catch: the first task that throws ends it.
RECURSIVE runQueue_noCatch(_, _)
runQueue_noCatch(w, i) ==
  IF i > Len(w.q)
  THEN [w EXCEPT !.q = <<>>, !.rafId = FALSE]
  ELSE LET r == RunTask([w EXCEPT !.ran = Append(@, w.q[i])], w.q[i])
       IN IF r.threw THEN [r EXCEPT !.threw = FALSE] ELSE runQueue_noCatch(r, i + 1)

\* A frame callback that reads q.length once: it runs the tasks queued before it and
\* drops the tasks they scheduled.
RECURSIVE runUpTo(_, _, _)
runUpTo(w, i, n) ==
  IF i > n
  THEN [w EXCEPT !.q = <<>>, !.rafId = FALSE]
  ELSE LET r == RunTask([w EXCEPT !.ran = Append(@, w.q[i])], w.q[i])
       IN runUpTo([r EXCEPT !.threw = FALSE], i + 1, n)

runQueue_lengthOnce(w, i) == runUpTo(w, i, Len(w.q))

\* The frame callback of schedule: for (i = 0; i < q.length; i++) try { q[i]() } catch {}
RECURSIVE runQueue(_, _)
runQueue(w, i) ==
  IF i > Len(w.q)
  THEN [w EXCEPT !.q = <<>>, !.rafId = FALSE]
  ELSE Bind(RunTask([w EXCEPT !.ran = Append(@, w.q[i])], w.q[i]), LAMBDA r :
         runQueue([r EXCEPT !.threw = FALSE], i + 1))

\* requestAnimationFrame(() => { ripple.classList.add('animating'); animateRipple(...) })
animateAll(w) ==
  [w EXCEPT !.cls = [n \in NodeIds |-> IF n \in w.anim THEN w.cls[n] \cup {"animating"}
                                       ELSE w.cls[n]],
            !.style = [n \in NodeIds |->
                         IF n \in w.anim
                         THEN w.style[n] \cup {"transform", "backface-visibility"}
                         ELSE w.style[n]],
            !.anim = {}]

\* One animation frame: the callbacks requested before it run in request order, the
\* animating callbacks of the previous frame's tasks before the scheduler's callback.
frame(w) ==
  Bind(animateAll(w), LAMBDA w1 :
    IF w1.rafRequests > 0
    THEN Bind([w1 EXCEPT !.rafRequests = @ - 1], LAMBDA w2 : runQueue(w2, 1))
    ELSE w1)

\* --------------------------------------------------------------- routing
\* upgradeElement that sets up a fresh per-surface entry on every call.
upgradeElement_fresh(w, el) ==
  [w EXCEPT !.upgraded = @ \cup {el}, !.hasData = @ \cup {el}, !.pool[el] = <<>>]

upgradeElement(w, el) ==
  IF el \in w.upgraded THEN w
  ELSE getElData([w EXCEPT !.upgraded = @ \cup {el}], el)

\* Pointer position relative to el, clamped to its box.
computePointerLocal(el, pt) ==
  LET r == RectOf(el)
      x == pt[1] - r.left
      y == pt[2] - r.top
  IN <<IF x < 0 THEN 0 ELSE IF x > r.width THEN r.width ELSE x,
       IF y < 0 THEN 0 ELSE IF y > r.height THEN r.height ELSE y>>

\* onPointerDown.call(el, e); override is e._ripple_override_coords or <<>>.
onPointerDown(w, el, button, pt, override) ==
  IF button # 0 THEN w
  ELSE IF w.rapid THEN w
  ELSE LET p == IF override # <<>> THEN override ELSE computePointerLocal(el, pt)
       IN schedule(w, Task("ptr", el, p, override # <<>>))

\* findWaveDelegateEl that measures the pointer against the delegating ancestor's box.
findWaveDelegateEl_ancestorRect(w, origin, button, pt) ==
  LET ch == AncestorChain(origin)
      hits == {i \in 1..Len(ch) :
                 /\ DelegateTargetOf(ch[i]) # "none"
                 /\ HasWave(DelegateTargetOf(ch[i]))}
  IN IF hits = {} THEN [w EXCEPT !.ret = FALSE]
     ELSE LET el == ch[CHOOSE i \in hits : \A j \in hits : i <= j]
              dt == DelegateTargetOf(el)
              rect == RectOf(el)
              w1 == [w EXCEPT !.delegateActive = @ \cup {dt}]
              w2 == IF button # 0 \/ w1.rapid THEN w1
                    ELSE schedule(w1, Task("ptr", dt,
                                           <<pt[1] - rect.left, pt[2] - rect.top>>, TRUE))
          IN [w2 EXCEPT !.fwds = Append(@, [anc |-> el, target |-> dt,
                                            types |-> ReleaseTypes]),
                        !.ret = TRUE]

\* Climbs from the event target; on the first ancestor whose wave-delegate names a
\* [wave] element it activates that element and listens for the release on the ancestor.
findWaveDelegateEl(w, origin, button, pt) ==
  LET ch == AncestorChain(origin)
      hits == {i \in 1..Len(ch) :
                 /\ DelegateTargetOf(ch[i]) # "none"
                 /\ HasWave(DelegateTargetOf(ch[i]))}
  IN IF hits = {} THEN [w EXCEPT !.ret = FALSE]
     ELSE LET el == ch[CHOOSE i \in hits : \A j \in hits : i <= j]
              dt == DelegateTargetOf(el)
              rect == RectOf(dt)
              coords == <<pt[1] - rect.left, pt[2] - rect.top>>
              w1 == [w EXCEPT !.delegateActive = @ \cup {dt}]
              w2 == onPointerDown(w1, dt, button, pt, coords)
          IN [w2 EXCEPT !.fwds = Append(@, [anc |-> el, target |-> dt,
                                            types |-> ReleaseTypes]),
                        !.ret = TRUE]

\* globalPointerHandler without its own button test: the test of onPointerDown remains.
globalPointerHandler_anyButton(w, button, pt) ==
  LET target == HitTest(pt)
      w1 == findWaveDelegateEl(w, target, button, pt)
  IN IF w1.ret = TRUE THEN w1
     ELSE LET el == ClosestWave(target)
          IN IF el = "none" THEN w1
             ELSE onPointerDown(upgradeElement(w1, el), el, button, pt, <<>>)

globalPointerHandler(w, button, pt) ==
  IF button # 0 THEN w
  ELSE LET target == HitTest(pt)
           w1 == findWaveDelegateEl(w, target, button, pt)
       IN IF w1.ret = TRUE THEN w1
          ELSE LET el == ClosestWave(target)
               IN IF el = "none" THEN w1
                  ELSE onPointerDown(upgradeElement(w1, el), el, button, pt, <<>>)

ActivationKeys == {" ", "Enter"}

onKeyDown(w, el, key) ==
  IF key \notin ActivationKeys THEN w
  ELSE schedule(clearRipples(w, el), Task("key", el, <<>>, FALSE))

globalKeyHandler(w, target, key) ==
  LET el == ClosestWave(target)
  IN IF el = "none" THEN w
     ELSE onKeyDown(upgradeElement(w, el), el, key)


\* --------------------------------------------------------------- release
\* endRipple of closure c, called for a release event of the given type.  early is
\* the set of nodes whose expansion has not reached the fade-start point (hardened).
endRipple(w, c, type, early) ==
  IF NodeParent(w, c.node) = "none"
  THEN \* return before removeListeners: only the once-listener that fired is gone
       IF c.types = {type} THEN w
       ELSE [w EXCEPT !.ends = Append(@, [c EXCEPT !.types = @ \ {type}])]
  ELSE IF w.variant = "hardened" /\ c.node \in early
  THEN [w EXCEPT !.delayed = Append(@, [el |-> c.el, node |-> c.node, cur |-> c.cur])]
  ELSE LET w1 == fadeOutAndRemoveRipple(w, c.node, c.el)
       IN IF c.cur THEN [w1 EXCEPT !.active[c.el] = SeqWithout(@, c.node)] ELSE w1

\* The endRipple listeners of element e, in registration order; w.ends is rebuilt
\* from the closures that stay registered.
RECURSIVE fireEnds(_, _, _, _, _)
fireEnds(w, cs, e, type, early) ==
  IF cs = <<>> THEN w
  ELSE LET c == Head(cs)
       IN IF c.el = e /\ type \in c.types
          THEN fireEnds(endRipple(w, c, type, early), Tail(cs), e, type, early)
          ELSE fireEnds([w EXCEPT !.ends = Append(@, c)], Tail(cs), e, type, early)

\* forwardEndRipple without the _ripple_delegate_active guard.
forwardEndRipple_noFlag(w, f, type) ==
  FadeAll([w EXCEPT !.delegateActive = @ \ {f.target}], w.active[f.target], f.target)

forwardEndRipple(w, f, type) ==
  IF f.target \notin w.delegateActive
  THEN IF f.types = {type} THEN w
       ELSE [w EXCEPT !.fwds = Append(@, [f EXCEPT !.types = @ \ {type}])]
  ELSE LET w1 == [w EXCEPT !.delegateActive = @ \ {f.target}]
       IN FadeAll(w1, w1.active[f.target], f.target)

RECURSIVE fireFwds(_, _, _, _)
fireFwds(w, fs, e, type) ==
  IF fs = <<>> THEN w
  ELSE LET f == Head(fs)
       IN IF f.anc = e /\ type \in f.types
          THEN fireFwds(forwardEndRipple(w, f, type), Tail(fs), e, type)
          ELSE fireFwds([w EXCEPT !.fwds = Append(@, f)], Tail(fs), e, type)

\* document-level touchend / touchcancel handler of installTouchHandlers.
onTouchEnd(w) == IF w.variant = "overlay" THEN [w EXCEPT !.rapid = FALSE] ELSE w

\* A release event travels from its target up to the document.
RECURSIVE dispatchRelease(_, _, _, _)
dispatchRelease(w, path, type, early) ==
  IF path = <<>>
  THEN IF type \in {"touchend", "touchcancel"} THEN onTouchEnd(w) ELSE w
  ELSE LET e == Head(path)
       IN Bind(fireEnds([w EXCEPT !.ends = <<>>], w.ends, e, type, early), LAMBDA w1 :
          Bind(fireFwds([w1 EXCEPT !.fwds = <<>>], w1.fwds, e, type), LAMBDA w2 :
            dispatchRelease(w2, Tail(path), type, early)))

ReleasePath(target, type) ==
  IF Bubbles(type) THEN AncestorChain(target) ELSE <<target>>

\* ---------------------------------------------------------------- timers
FirstIndex(s, P(_)) == CHOOSE i \in 1..Len(s) : P(s[i]) /\ \A j \in 1..(i - 1) : ~P(s[j])

\* transitionend on node n reaches the onEnd listeners still registered on it.
RECURSIVE transitionEnd(_, _, _, _)
transitionEnd(w, n, prop, i) ==
  IF i > Len(w.fades) THEN w
  ELSE IF w.fades[i].node = n /\ ~w.fades[i].removed
       THEN transitionEnd(onEnd(w, i, prop), n, prop, i + 1)
       ELSE transitionEnd(w, n, prop, i + 1)

\* The fallback timer of fade invocation i fires.
fadeTimer(w, i) == [onEnd(w, i, "timer") EXCEPT !.fades = DropAt(@, i)]

\* The timer of the keyboard task fires: fade, then set.delete on the captured Set.
keyTimer(w, i) ==
  LET k == w.keyTimers[i]
      w1 == fadeOutAndRemoveRipple(w, k.node, k.el)
      w2 == IF k.cur THEN [w1 EXCEPT !.active[k.el] = SeqWithout(@, k.node)] ELSE w1
  IN [w2 EXCEPT !.keyTimers = DropAt(@, i)]

\* The timer that endRipple set before the fade-start point fires (hardened).
delayedTimer(w, i) ==
  LET k == w.delayed[i]
      w0 == [w EXCEPT !.delayed = DropAt(@, i)]
  IN IF NodeParent(w, k.node) = "none" THEN w0
     ELSE LET w1 == fadeOutAndRemoveRipple(w0, k.node, k.el)
          IN IF k.cur THEN [w1 EXCEPT !.active[k.el] = SeqWithout(@, k.node)] ELSE w1


\* ---------------------------------------------------------------- legacy
\* src/unnamed/part_000 (wake-effect.js): one ripple per surface, a per-surface and
\* a global rate limiter, no pool and no scheduler.
MIN_RIPPLE_INTERVAL == 150
GLOBAL_MIN_RIPPLE_INTERVAL == 100
GLOBAL_MAX_RIPPLES == 7
BASE_DURATION == 720
\* The delay between a span's fading class and its removal.
REMOVE_DELAY == 750

\* Spans the legacy engine creates in one run.
MaxSpans == 2
\* setTimeout callbacks pending at once.
MaxTimeouts == 2
\* The last instant of a run, in ms.
MaxTime == 1000

\* Spans and pending timeouts of a run that presses keys until the global cap is
\* reached: the cap is 7 spans, and every key-down sets one timeout per span attached.
MaxLimiterSpans == 10
MaxLimiterTimeouts == 48
\* The last instant of such a run, in ms.
MaxLimiterTime == 1200

\* One id of room for the span that the bound on spans then rejects.
WakeIds == 1..(MaxLimiterSpans + 1)
NoSpan == [el |-> "none", cls |-> {}]

\* The legacy state as one value.
L ==
  [now |-> now, lastGlobalRippleTime |-> lastGlobalRippleTime,
   globalActiveWavesCount |-> globalActiveWavesCount, lastAllowed |-> lastAllowed,
   activeRipples |-> activeRipples, surfaceClass |-> surfaceClass,
   wakeNodes |-> wakeNodes, wakeNext |-> wakeNext, wakeAnim |-> wakeAnim,
   wakeEnds |-> wakeEnds, timeouts |-> timeouts, ret |-> FALSE]

\* Math.max(0, globalActiveWavesCount - 1)
wake_release(l) == [l EXCEPT !.globalActiveWavesCount = Max2(0, @ - 1)]

wake_fadeAndRemove(l, n) ==
  [l EXCEPT !.wakeNodes[n].cls = @ \cup {"fading"},
            !.timeouts = Append(@, [kind |-> "remove", node |-> n,
                                    due |-> l.now + REMOVE_DELAY])]

\* el.querySelectorAll('.ripple'), spans of nested surfaces included.
wake_ripplesUnder(l, el) ==
  LET under == {n \in WakeIds : l.wakeNodes[n].el \in Range(SubtreeSurfaces(el))}
  IN [i \in 1..Cardinality(under) |->
        CHOOSE n \in under : Cardinality({m \in under : m < n}) = i - 1]

RECURSIVE wake_fadeAll(_, _)
wake_fadeAll(l, ns) ==
  IF ns = <<>> THEN l ELSE wake_fadeAll(wake_fadeAndRemove(l, Head(ns)), Tail(ns))

wake_clearRipples(l, el) ==
  [wake_fadeAll(l, wake_ripplesUnder(l, el)) EXCEPT !.activeRipples[el] = 0]

allowGlobalRipple(l) ==
  IF l.now - l.lastGlobalRippleTime < GLOBAL_MIN_RIPPLE_INTERVAL
  THEN [l EXCEPT !.ret = FALSE]
  ELSE IF l.globalActiveWavesCount >= GLOBAL_MAX_RIPPLES
  THEN [l EXCEPT !.ret = FALSE]
  ELSE [l EXCEPT !.lastGlobalRippleTime = l.now,
                 !.globalActiveWavesCount = @ + 1,
                 !.ret = TRUE]

\* document.createElement('span') ... el.appendChild(ripple); requestAnimationFrame
wake_createRipple(l, el) ==
  LET n == l.wakeNext + 1
  IN [l EXCEPT !.wakeNext = n,
               !.wakeNodes[n] = [el |-> el, cls |-> {}],
               !.wakeAnim = @ \cup {n}]

wake_onPointerDown(l, el, button) ==
  IF button # 0 THEN l
  ELSE LET l1 == allowGlobalRipple(l)
       IN IF ~l1.ret THEN l1
          ELSE IF l1.now - l1.lastAllowed[el] < MIN_RIPPLE_INTERVAL THEN wake_release(l1)
          ELSE IF l1.activeRipples[el] # 0 THEN wake_release(l1)
          ELSE LET l2 == wake_createRipple([l1 EXCEPT !.lastAllowed[el] = l1.now], el)
               IN [l2 EXCEPT !.activeRipples[el] = l2.wakeNext,
                             !.wakeEnds = Append(@, [el |-> el, node |-> l2.wakeNext])]

wake_onKeyDown(l, el, key) ==
  IF key \notin {" ", "Enter"} THEN l
  ELSE LET l1 == allowGlobalRipple(wake_clearRipples(l, el))
       IN IF ~l1.ret THEN l1
          ELSE LET l2 == wake_createRipple(l1, el)
               IN [l2 EXCEPT !.timeouts = Append(@, [kind |-> "fade", node |-> l2.wakeNext,
                                                     due |-> l2.now + BASE_DURATION - 140]),
                             !.activeRipples[el] = 0,
                             !.lastAllowed[el] = l2.now]

\* The endRipple closure c of a pointer ripple.
wake_endRipple(l, c) ==
  [wake_fadeAndRemove(l, c.node) EXCEPT
     !.activeRipples[c.el] = 0,
     !.wakeEnds = SelectSeq(@, LAMBDA d : d # c)]

wake_upgradeElement(l, el) ==
  IF el \in l.surfaceClass THEN l ELSE [l EXCEPT !.surfaceClass = @ \cup {el}]

\* An event that bubbles from target: the listeners of the upgraded surfaces on its
\* path run, nearest first.
wake_path(l, target) == SelectSeq(AncestorChain(target), LAMBDA e : e \in l.surfaceClass)

RECURSIVE wake_pointerDown(_, _, _)
wake_pointerDown(l, path, button) ==
  IF path = <<>> THEN l
  ELSE wake_pointerDown(wake_onPointerDown(l, Head(path), button), Tail(path), button)

RECURSIVE wake_keyDown(_, _, _)
wake_keyDown(l, path, key) ==
  IF path = <<>> THEN l
  ELSE wake_keyDown(wake_onKeyDown(l, Head(path), key), Tail(path), key)

\* The endRipple closures registered on el when the event reaches it, in order.
RECURSIVE wake_runEnds(_, _)
wake_runEnds(l, cs) ==
  IF cs = <<>> THEN l
  ELSE wake_runEnds(IF Head(cs) \in Range(l.wakeEnds) THEN wake_endRipple(l, Head(cs)) ELSE l,
                    Tail(cs))

RECURSIVE wake_pointerUp(_, _)
wake_pointerUp(l, path) ==
  IF path = <<>> THEN l
  ELSE wake_pointerUp(
         wake_runEnds(l, SelectSeq(l.wakeEnds, LAMBDA c : c.el = Head(path))), Tail(path))

\* The setTimeout callback i.
wake_timeout(l, i) ==
  LET k == l.timeouts[i]
      l1 == [l EXCEPT !.timeouts = DropAt(@, i)]
  IN IF k.kind = "remove"
     THEN wake_release([l1 EXCEPT !.wakeNodes[k.node].el = "none"])
     ELSE wake_fadeAndRemove(l1, k.node)

LegacyBounded(l) ==
  /\ l.wakeNext <= MaxSpans
  /\ Len(l.timeouts) <= MaxTimeouts

LegacyInit ==
  /\ now = 0
  /\ lastGlobalRippleTime = 0
  /\ globalActiveWavesCount = 0
  /\ lastAllowed = [s \in Surfaces |-> 0]
  /\ activeRipples = [s \in Surfaces |-> 0]
  /\ surfaceClass = {"P"}
  /\ wakeNodes = [n \in WakeIds |-> NoSpan]
  /\ wakeNext = 0
  /\ wakeAnim = {}
  /\ wakeEnds = <<>>
  /\ timeouts = <<>>

CommitLegacy(l) ==
  /\ now' = l.now
  /\ lastGlobalRippleTime' = l.lastGlobalRippleTime
  /\ globalActiveWavesCount' = l.globalActiveWavesCount
  /\ lastAllowed' = l.lastAllowed
  /\ activeRipples' = l.activeRipples
  /\ surfaceClass' = l.surfaceClass
  /\ wakeNodes' = l.wakeNodes
  /\ wakeNext' = l.wakeNext
  /\ wakeAnim' = l.wakeAnim
  /\ wakeEnds' = l.wakeEnds
  /\ timeouts' = l.timeouts
  /\ UNCHANGED <<engineVars, colorVars, calcVars, glueVars>>


\* ---------------------------------------------------------------- colour
\* Strings are sequences of one-character strings.  The characters stand for the
\* classes the code tells apart: "c" the directive letter, "a" any other character of
\* [#a-zA-Z0-9(),.], " " white space, "=" and ":" the separators, ";" anything else.
Alphabet == {"c", "a", " ", "=", ":", ";"}
Spaces == {" "}
Seps == {"=", ":"}
\* [#a-zA-Z0-9(),.\s]
ValueClass == {"c", "a", " "}

\* Values that are not strings: a missing attribute, an undeclared property, null.
Absent == <<"absent">>
Unset == <<"unset">>
Null == <<"null">>

\* Longest wave attribute value.
MaxAttrLen == 3
\* The last instant of a colour run, in ms.
MaxClock == 60000
\* The last instant of a run that lets the colour cache of the low tier expire, in ms.
MaxCacheClock == 110000

RECURSIVE TrimLeft(_)
TrimLeft(s) == IF s # <<>> /\ Head(s) \in Spaces THEN TrimLeft(Tail(s)) ELSE s

RECURSIVE TrimRight(_)
TrimRight(s) ==
  IF s # <<>> /\ s[Len(s)] \in Spaces THEN TrimRight(SubSeq(s, 1, Len(s) - 1)) ELSE s

\* String.prototype.trim
Trim(s) == TrimRight(TrimLeft(s))

\* The first index from i on whose character is outside set, Len(s) + 1 if none.
RECURSIVE SkipIn(_, _, _)
SkipIn(s, i, set) == IF i <= Len(s) /\ s[i] \in set THEN SkipIn(s, i + 1, set) ELSE i

\* reWaveColor = /(?:^|\s)c\s*[=:]?\s*([#a-zA-Z0-9(),.\s]+)/i tried with its c at
\* index i.  The quantifiers are greedy: white space, an optional separator, white
\* space, then the longest run of value characters.  When that run is empty the match
\* backtracks, and succeeds only by giving one white-space character back to the group.
reWaveColorAt(s, i) ==
  LET j1 == SkipIn(s, i + 1, Spaces)
      j2 == IF j1 <= Len(s) /\ s[j1] \in Seps THEN j1 + 1 ELSE j1
      j3 == SkipIn(s, j2, Spaces)
      k  == SkipIn(s, j3, ValueClass)
  IN IF k > j3 THEN [found |-> TRUE, group |-> SubSeq(s, j3, k - 1)]
     ELSE IF j1 > i + 1 \/ j3 > j2 THEN [found |-> TRUE, group |-> <<" ">>]
     ELSE [found |-> FALSE, group |-> <<>>]

\* reWaveColor.exec(attr): the leftmost match.
reWaveColor(s) ==
  LET starts == {i \in 1..Len(s) :
                   /\ s[i] = "c"
                   /\ i = 1 \/ s[i - 1] \in Spaces
                   /\ reWaveColorAt(s, i).found}
  IN IF starts = {} THEN [found |-> FALSE, group |-> <<>>]
     ELSE reWaveColorAt(s, CHOOSE i \in starts : \A j \in starts : i <= j)

\* The surface whose colour is resolved, and the nodes the ancestor walk visits.
ColorEl == "P"
ColorChain == AncestorChain(ColorEl) \o <<Body, "html">>

\* getComputedStyle(node).getPropertyValue('--ripple-default-color'): a custom
\* property is inherited unless the node declares it.
RECURSIVE Computed(_, _)
Computed(decl, chain) ==
  IF chain = <<>> THEN <<>>
  ELSE IF decl[Head(chain)] # Unset THEN decl[Head(chain)]
  ELSE Computed(decl, Tail(chain))

\* The ancestor walk of getDefaultRippleColor: the first non-empty trimmed value.
RECURSIVE WalkDefault(_, _)
WalkDefault(decl, chain) ==
  IF chain = <<>> THEN Null
  ELSE IF Trim(Computed(decl, chain)) # <<>> THEN Trim(Computed(decl, chain))
  ELSE WalkDefault(decl, Tail(chain))

\* The colour state as one value.
C ==
  [perf |-> perf, clock |-> clock, dataColor |-> dataColor, waveAttr |-> waveAttr,
   declared |-> declared, colorStamp |-> colorStamp, colorCache |-> colorCache,
   ret |-> Null, cached |-> FALSE]

\* getDefaultRippleColor that still reuses the cache when its age equals the TTL.
getDefaultRippleColor_atTTL(c) ==
  LET localTTL == IF c.perf = "low" THEN 20000 * 4 ELSE 20000
  IN IF c.colorStamp # 0 /\ c.clock - c.colorStamp <= localTTL
     THEN [c EXCEPT !.ret = c.colorCache, !.cached = TRUE]
     ELSE LET found == WalkDefault(c.declared, ColorChain)
          IN [c EXCEPT !.colorCache = found, !.colorStamp = c.clock, !.ret = found]

getDefaultRippleColor(c) ==
  LET localTTL == IF c.perf = "low" THEN 20000 * 4 ELSE 20000
  IN IF c.colorStamp # 0 /\ c.clock - c.colorStamp < localTTL
     THEN [c EXCEPT !.ret = c.colorCache, !.cached = TRUE]
     ELSE LET found == WalkDefault(c.declared, ColorChain)
          IN [c EXCEPT !.colorCache = found, !.colorStamp = c.clock, !.ret = found]

getRippleColor(c) ==
  IF c.dataColor # Absent /\ Trim(c.dataColor) # <<>>
  THEN [c EXCEPT !.ret = Trim(c.dataColor)]
  ELSE LET m == reWaveColor(c.waveAttr)
       IN IF m.found /\ Trim(m.group) # <<>>
          THEN [c EXCEPT !.ret = Trim(m.group)]
          ELSE getDefaultRippleColor(c)

NotResolved == [called |-> FALSE, value |-> Null, cached |-> FALSE]

\* Nothing measured yet.
NotMeasured ==
  [build |-> "hardened", width |-> 0, height |-> 0, by |-> "none", x |-> 0, y |-> 0,
   radius |-> [finite |-> TRUE, v |-> 0]]

\* Nothing painted yet.
NotPainted ==
  [build |-> "hardened", fn |-> "rgb", alpha |-> "none", syntax |-> "comma",
   now |-> 0, gm |-> <<>>, arg |-> <<>>, out |-> [kind |-> "none"]]

CalcIdle == measured = NotMeasured /\ painted = NotPainted

\* The loader before initWakeEffect calls it: waveJsonLoaded is false, no search runs
\* and the callback has not been called.
LoaderIdle ==
  [build |-> "hardened", script |-> FALSE, docs |-> <<>>, loaded |-> FALSE,
   settings |-> 0, loads |-> 0, pending |-> {}, fetched |-> <<>>, calls |-> <<>>,
   escaped |-> FALSE]

\* The older copy of the engine (wave-effect.ts:1-463) before the host attaches any
\* element: elements A and B, B inside A, carry no class and no listener.
HostEls == {"A", "B"}
NoHostEvent == [type |-> "none", target |-> "none", queued |-> {}]
HostIdle ==
  [surface |-> {}, listeners |-> [e \in HostEls |-> <<>>], q |-> <<>>, rafId |-> FALSE,
   rippled |-> {}, held |-> {},
   calls |-> [e \in HostEls |-> "none"], last |-> NoHostEvent]
GlueIdle == loader = LoaderIdle /\ host = HostIdle

ColorIdle ==
  /\ clock = 20000
  /\ dataColor = Absent
  /\ waveAttr = <<>>
  /\ declared = [n \in Range(ColorChain) |-> Unset]
  /\ colorStamp = 0
  /\ colorCache = Null
  /\ resolved = NotResolved

CommitColor(c, r) ==
  /\ clock' = c.clock
  /\ dataColor' = c.dataColor
  /\ waveAttr' = c.waveAttr
  /\ declared' = c.declared
  /\ colorStamp' = c.colorStamp
  /\ colorCache' = c.colorCache
  /\ resolved' = r
  /\ UNCHANGED <<engineVars, legacyVars, calcVars, glueVars>>


\* ---------------------------------------------------------- environments
Buttons == {0, 2}
Keys == {" ", "Enter", "a"}
TransitionProps == {"opacity", "transform"}

\* What the user, the host page and the browser do is drawn from an environment:
\* the pointer positions and buttons of pointer-downs, the keys and focus targets of
\* key-downs, the types and targets of release events and whether a release may come
\* before the fade-start point, the surfaces the host clears or upgrades, whether
\* touch-move and scroll gestures occur, whether arbitrary functions are handed to
\* schedule (the environment named "tasks"), and the bounds on nodes cloned, on fade
\* invocations and release listeners (pending), on timers and forwarders (timers),
\* on scroll timers and on queued tasks.
Environment(name, points, buttons, keys, focus, relTypes, relTargets, early, clears,
            upgrades, gestures, nodes, pending, timers, scrolls, queue) ==
  [name |-> name, points |-> points, buttons |-> buttons, keys |-> keys,
   focus |-> focus, relTypes |-> relTypes, relTargets |-> relTargets,
   early |-> early, clears |-> clears, upgrades |-> upgrades, gestures |-> gestures,
   nodes |-> nodes, pending |-> pending, timers |-> timers, scrolls |-> scrolls,
   queue |-> queue, probes |-> name = "tasks"]

\* Repeated presses with any button on one surface, on its child outside its box
\* and beside it, never released; the host upgrades elements.
EnvBurst ==
  Environment("burst", {<<1, 0>>, <<9, 1>>, <<12, 1>>}, Buttons, {}, {}, {}, {},
              FALSE, {}, {"P", "T"}, FALSE, MaxNodes, MaxPending, 0, 0, MaxQueue)

\* Press and release on one surface, with every release type.
EnvPress ==
  Environment("press", {<<1, 0>>}, {0}, {}, {}, ReleaseTypes, {"P", "X"}, FALSE, {},
              {}, FALSE, MaxNodes - 1, MaxPending - 1, 0, 0, MaxQueue - 1)

\* Press and release where the release may come before the fade-start point.
EnvEarly ==
  Environment("early", {<<1, 0>>}, {0}, {}, {}, {"pointerup"}, {"P"}, TRUE, {}, {},
              FALSE, MaxNodes - 2, MaxPending - 1, 1, 0, MaxQueue - 1)

\* Keyboard activation and host clearRipples on one surface.
EnvKeys ==
  Environment("keys", {}, {}, ActivationKeys, {"P"}, {}, {}, FALSE, {"P"}, {}, FALSE,
              MaxNodes - 1, MaxPending - 1, 2, 0, MaxQueue - 1)

\* Keyboard activation, host clearRipples, press and release sharing one node.
EnvMixed ==
  Environment("mixed", {<<1, 0>>}, {0}, {"Enter"}, {"P"}, {"pointerup"}, {"P"}, FALSE,
              {"P"}, {}, FALSE, MaxNodes - 2, MaxPending - 1, 1, 0, MaxQueue - 1)

\* Key-downs of any key whose focus is the delegating ancestor, the surface nested
\* in it or an element outside every surface; secondary-button presses.
EnvFocus ==
  Environment("focus", {<<2, 2>>}, {2}, Keys, {"D", "T", "Y"}, {}, {}, FALSE, {}, {},
              FALSE, MaxNodes - 2, MaxPending - 2, 1, 0, MaxQueue - 1)

\* Presses under the delegating ancestor, releases on it and on the delegate.
EnvDelegate ==
  Environment("delegate", {<<2, 2>>}, {0}, {}, {}, {"pointerup", "pointerleave"},
              {"D", "T"}, FALSE, {}, {}, FALSE,
              MaxNodes - 2, MaxPending - 1, 2, 0, MaxQueue - 1)

\* Key-downs on the outer surface while the surface nested in it shows ripples.
EnvNested ==
  Environment("nested", {<<2, 2>>, <<3, 1>>}, {0}, {"Enter"}, {"P"}, {}, {}, FALSE,
              {}, {}, FALSE, MaxNodes - 1, MaxPending - 1, 1, 0, MaxQueue - 1)

\* Touch and scroll gestures around presses and key-downs.
EnvGesture ==
  Environment("gesture", {<<1, 0>>, <<2, 2>>}, {0}, {"Enter"}, {"P"},
              {"touchend"}, {"Y"}, FALSE, {}, {}, TRUE,
              MaxNodes - 2, MaxPending - 2, 1, 2, MaxQueue - 1)

\* Arbitrary functions handed to schedule, next to presses on one surface.
EnvTasks ==
  Environment("tasks", {<<1, 0>>}, {0}, {}, {}, {}, {}, FALSE, {}, {}, FALSE,
              MaxNodes - 2, MaxPending - 2, 0, 0, MaxQueue + 1)

\* Taps of the primary button on one surface and under the delegating ancestor:
\* every press is followed by the pointerup of that press.
EnvTap ==
  Environment("tap", {<<1, 0>>, <<2, 2>>}, {0}, {}, {}, {"pointerup"}, {}, TRUE, {}, {},
              FALSE, MaxNodes - 2, MaxPending - 1, 1, 0, MaxQueue - 1)

\* Key-downs on one surface and nothing else: every ripple is a keyboard ripple.
EnvKeyFade ==
  Environment("keyfade", {}, {}, {"Enter"}, {"P"}, {}, {}, FALSE, {"P"}, {}, FALSE,
              MaxNodes - 2, MaxPending - 1, 1, 0, MaxQueue - 1)

Environments ==
  {EnvBurst, EnvPress, EnvEarly, EnvKeys, EnvMixed, EnvFocus, EnvDelegate, EnvNested,
   EnvGesture, EnvTasks}

\* --------------------------------------------------------------- actions
\* Timers of one kind on one surface carry the same delay (in the overlay variant
\* on every surface), so they fire in the order they were set.
TimerReady(s, i) ==
  \A j \in 1..(i - 1) : variant # "overlay" /\ s[j].el # s[i].el

\* The surface a task was queued for, "none" when the handler queued nothing.
QueuedFor(w2) == IF Len(w2.q) > Len(q) THEN w2.q[Len(w2.q)].el ELSE "none"

\* pointerdown on document (capture phase).
PointerDown ==
  \E button \in env.buttons, pt \in env.points :
    LET w2 == globalPointerHandler(W, button, pt)
    IN /\ Bounded(w2)
       /\ Commit([w2 EXCEPT !.lastEvent =
            [kind |-> "pointerdown", primary |-> button = 0, rapid |-> rapid,
             queued |-> QueuedFor(w2)]])

\* keydown on document (capture phase); target is the focused element.
KeyDown ==
  \E key \in env.keys, target \in env.focus :
    LET w2 == globalKeyHandler(W, target, key)
    IN /\ Bounded(w2)
       /\ Commit([w2 EXCEPT !.lastEvent =
            [kind |-> "keydown", primary |-> key \in ActivationKeys, rapid |-> rapid,
             queued |-> QueuedFor(w2)]])

\* pointerup / pointerleave / touchend / touchcancel on some element.
Release ==
  \E type \in env.relTypes, target \in env.relTargets,
     early \in IF env.early THEN SUBSET {ends[i].node : i \in 1..Len(ends)} ELSE {{}} :
    LET w2 == dispatchRelease(W, ReleasePath(target, type), type, early)
    IN /\ w2 # W
       /\ Bounded(w2)
       /\ Commit([w2 EXCEPT !.lastEvent =
            [kind |-> "release", primary |-> Bubbles(type), rapid |-> rapid,
             queued |-> "none"]])

\* Some function is handed to schedule.
HostSchedule ==
  \E throws \in BOOLEAN, spawn \in BOOLEAN :
    LET w2 == schedule(W, Probe(Len(q) + 1, throws, spawn))
    IN env.probes /\ Bounded(w2) /\ Commit(w2)

\* An animation frame.
Frame ==
  /\ anim # {} \/ rafRequests > 0
  /\ LET w2 == frame(W) IN Bounded(w2) /\ Commit(w2)

\* transitionend of a fading, attached node.
TransitionEnd ==
  \E n \in Nodes, prop \in TransitionProps :
    /\ NodeParent(W, n) # "none"
    /\ "fading" \in cls[n]
    /\ \E i \in 1..Len(fades) : fades[i].node = n /\ ~fades[i].removed
    /\ Commit(transitionEnd(W, n, prop, 1))

FireFade(i) ==
  /\ i \in 1..Len(fades)
  /\ TimerReady(fades, i)
  /\ Commit(fadeTimer(W, i))

FadeTimer == \E i \in 1..MaxPending + 1 : FireFade(i)

FireKey(i) ==
  /\ i \in 1..Len(keyTimers)
  /\ TimerReady(keyTimers, i)
  /\ LET w2 == keyTimer(W, i) IN Bounded(w2) /\ Commit(w2)

KeyTimer == \E i \in 1..MaxPending + 1 : FireKey(i)

DelayedTimer ==
  \E i \in 1..Len(delayed) :
    LET w2 == delayedTimer(W, i) IN Bounded(w2) /\ Commit(w2)

\* touchstart on document.
TouchStart == env.gestures /\ rapid /\ Commit([W EXCEPT !.rapid = FALSE])

\* touchmove on document whose velocity over the history exceeds 1.6 px/ms.
TouchMoveFast == env.gestures /\ ~rapid /\ Commit([W EXCEPT !.rapid = TRUE])

\* scroll on window less than 40 ms after the previous one.
ScrollRapid ==
  /\ env.gestures
  /\ scrollTimers < env.scrolls
  /\ Commit([W EXCEPT !.rapid = TRUE, !.scrollTimers = @ + 1])

\* The 120 ms timer of onScroll.
ScrollTimer ==
  /\ scrollTimers > 0
  /\ Commit([W EXCEPT !.rapid = FALSE, !.scrollTimers = @ - 1])

\* MarcumatWave.upgradeElement(el), called by the host.
HostUpgrade ==
  \E e \in env.upgrades :
    Commit([upgradeElement(W, e) EXCEPT !.lastEvent =
              [kind |-> "upgrade", primary |-> e \in upgraded, rapid |-> rapid,
               queued |-> e]])

\* MarcumatWave.clearRipples(el), called by the host.
HostClear ==
  \E e \in env.clears :
    LET w2 == clearRipples(W, e)
    IN /\ RipplesUnder(W, SubtreeSurfaces(e)) # <<>> \/ active[e] # <<>>
       /\ Bounded(w2)
       /\ Commit([w2 EXCEPT !.lastEvent =
            [kind |-> "clear", primary |-> TRUE, rapid |-> rapid, queued |-> e]])

\* The engine right after load: one surface upgraded, nothing created yet.
EngineStart ==
  /\ upgraded = {"P"}
  /\ hasData = {"P"}
  /\ overlay = {}
  /\ pool = [s \in Surfaces |-> <<>>]
  /\ active = [s \in Surfaces |-> <<>>]
  /\ children = [s \in Surfaces |-> <<>>]
  /\ cls = [n \in NodeIds |-> {}]
  /\ style = [n \in NodeIds |-> {}]
  /\ nextNode = 0
  /\ q = <<>>
  /\ rafId = FALSE
  /\ rafRequests = 0
  /\ anim = {}
  /\ fades = <<>>
  /\ ends = <<>>
  /\ keyTimers = <<>>
  /\ delayed = <<>>
  /\ fwds = <<>>
  /\ delegateActive = {}
  /\ rapid = FALSE
  /\ scrollTimers = 0
  /\ pointer = <<>>
  /\ RIPPLE_FADE_DURATION = 800
  /\ lastEvent = NoEvent
  /\ lastFrame = <<>>
  /\ ran = <<>>

Init ==
  /\ env \in Environments
  /\ variant \in Variants
  /\ perf \in PerfLevels
  /\ timing = DefaultTiming
  /\ EngineStart
  /\ LegacyInit
  /\ ColorIdle
  /\ CalcIdle
  /\ GlueIdle

Next ==
  \/ PointerDown
  \/ KeyDown
  \/ Release
  \/ HostSchedule
  \/ Frame
  \/ TransitionEnd
  \/ FadeTimer
  \/ KeyTimer
  \/ DelayedTimer
  \/ TouchStart
  \/ TouchMoveFast
  \/ ScrollRapid
  \/ ScrollTimer
  \/ HostUpgrade
  \/ HostClear

vars == <<engineVars, legacyVars, colorVars, calcVars, glueVars>>

Spec == Init /\ [][Next]_vars


\* Every timer that was set fires: the fallback timer at the head of the pending
\* fade timers is never postponed for ever.  No transitionend is ever required.
FairInit == Init /\ env = EnvMixed

FairNext ==
  \/ PointerDown
  \/ KeyDown
  \/ Release
  \/ Frame
  \/ TransitionEnd
  \/ FadeTimer
  \/ KeyTimer
  \/ HostClear

FairSpec == FairInit /\ [][FairNext]_vars /\ WF_vars(FireFade(1))

\* The engine under keyboard activation alone, with the timings a page may declare;
\* every timer that was set fires.
Timings ==
  {[expansionDuration |-> 400, fadeDuration |-> 800, fadeOffset |-> 0],
   [expansionDuration |-> 400, fadeDuration |-> 800, fadeOffset |-> 100],
   [expansionDuration |-> 400, fadeDuration |-> 800, fadeOffset |-> 500],
   [expansionDuration |-> 100, fadeDuration |-> 800, fadeOffset |-> 0]}

KeysInit ==
  /\ env = EnvKeyFade
  /\ variant \in Variants
  /\ perf \in PerfLevels
  /\ timing \in Timings
  /\ EngineStart
  /\ LegacyInit
  /\ ColorIdle
  /\ CalcIdle
  /\ GlueIdle

KeysNext ==
  \/ KeyDown
  \/ Frame
  \/ TransitionEnd
  \/ FadeTimer
  \/ KeyTimer
  \/ HostClear

SpecKeys == KeysInit /\ [][KeysNext]_vars /\ WF_vars(FireKey(1)) /\ WF_vars(FireFade(1))

\* The engine under taps: the pointer that went down goes up, on the element it
\* went down on; frames run and every timer that was set fires.  The pointerup may
\* be dispatched before or after the frame that runs the activation task.
TapDown ==
  /\ pointer = <<>>
  /\ \E pt \in env.points :
       LET w2 == globalPointerHandler(W, 0, pt)
       IN /\ Bounded(w2)
          /\ Commit([w2 EXCEPT !.pointer = pt, !.lastEvent =
               [kind |-> "pointerdown", primary |-> TRUE, rapid |-> rapid,
                queued |-> QueuedFor(w2)]])

TapUp ==
  /\ pointer # <<>>
  /\ \E early \in IF env.early THEN SUBSET {ends[i].node : i \in 1..Len(ends)} ELSE {{}} :
       LET w2 == dispatchRelease(W, ReleasePath(HitTest(pointer), "pointerup"),
                                 "pointerup", early)
       IN /\ Bounded(w2)
          /\ Commit([w2 EXCEPT !.pointer = <<>>, !.lastEvent =
               [kind |-> "release", primary |-> TRUE, rapid |-> rapid,
                queued |-> "none"]])

TapInit ==
  /\ env = EnvTap
  /\ variant \in Variants
  /\ perf \in PerfLevels
  /\ timing = DefaultTiming
  /\ EngineStart
  /\ LegacyInit
  /\ ColorIdle
  /\ CalcIdle
  /\ GlueIdle

TapNext ==
  \/ TapDown
  \/ TapUp
  \/ Frame
  \/ TransitionEnd
  \/ FadeTimer
  \/ DelayedTimer

SpecTap ==
  /\ TapInit
  /\ [][TapNext]_vars
  /\ WF_vars(TapUp) /\ WF_vars(Frame) /\ WF_vars(FireFade(1)) /\ SF_vars(DelayedTimer)

\* ------------------------------------------------------- legacy actions
\* pointerdown on some element; it bubbles through the upgraded surfaces above it.
WakePointerDown ==
  \E target \in {"P", "T", "X"}, button \in Buttons :
    LET l2 == wake_pointerDown(L, wake_path(L, target), button)
    IN LegacyBounded(l2) /\ CommitLegacy(l2)

\* keydown on the focused surface.
WakeKeyDown ==
  \E target \in Surfaces, key \in {"Enter", "a"} :
    LET l2 == wake_keyDown(L, wake_path(L, target), key)
    IN LegacyBounded(l2) /\ CommitLegacy(l2)

\* pointerup on some element.
WakePointerUp ==
  \E target \in {"P", "T"} :
    LET l2 == wake_pointerUp(L, wake_path(L, target))
    IN wakeEnds # <<>> /\ LegacyBounded(l2) /\ CommitLegacy(l2)

\* An animation frame: the pending callbacks add the animating class.
WakeFrame ==
  /\ wakeAnim # {}
  /\ CommitLegacy([L EXCEPT
       !.wakeNodes = [n \in WakeIds |->
                        IF n \in wakeAnim THEN [@[n] EXCEPT !.cls = @ \cup {"animating"}]
                        ELSE @[n]],
       !.wakeAnim = {}])

\* A timeout that is due fires; of two that are due the one due first.
WakeTimeout ==
  \E i \in 1..Len(timeouts) :
    /\ timeouts[i].due <= now
    /\ \A j \in 1..Len(timeouts) : timeouts[j].due >= timeouts[i].due
    /\ \A j \in 1..(i - 1) : timeouts[j].due # timeouts[i].due
    /\ CommitLegacy(wake_timeout(L, i))

\* Time passes, in steps of 100 ms: two events are 0 ms apart (below both limits),
\* 100 ms apart (between GLOBAL_MIN_RIPPLE_INTERVAL and MIN_RIPPLE_INTERVAL) or 200 ms
\* and more apart (above both).
WakeAdvance ==
  /\ now + 100 <= MaxTime
  /\ CommitLegacy([L EXCEPT !.now = @ + 100])

\* upgradeElement(el), called at load or by the host.
WakeUpgrade == \E e \in Surfaces : CommitLegacy(wake_upgradeElement(L, e))

LegacySpecInit ==
  /\ env = EnvBurst
  /\ variant = "hardened"
  /\ perf = "high"
  /\ timing = DefaultTiming
  /\ EngineStart
  /\ LegacyInit
  /\ ColorIdle
  /\ CalcIdle
  /\ GlueIdle

LegacyNext ==
  \/ WakePointerDown
  \/ WakeKeyDown
  \/ WakePointerUp
  \/ WakeFrame
  \/ WakeTimeout
  \/ WakeAdvance
  \/ WakeUpgrade

SpecLegacy == LegacySpecInit /\ [][LegacyNext]_vars

\* ------------------------------------------------------- colour actions
\* Every string of at most n characters.
Strings(n) == UNION {[1..k -> Alphabet] : k \in 0..n}

DataColors == {Absent, <<>>, <<" ">>, <<" ", "a">>}
DeclaredValues == {Unset, <<" ">>, <<"a">>}

\* A ripple is created on the surface: its colour is resolved.
ColorResolve ==
  LET c2 == getRippleColor(C)
  IN CommitColor(c2, [called |-> TRUE, value |-> c2.ret, cached |-> c2.cached])

\* Time passes.
ColorTick ==
  /\ clock + 20000 <= MaxClock
  /\ CommitColor([C EXCEPT !.clock = @ + 20000], NotResolved)

\* The page changes the declaration of --ripple-default-color on a node.
Restyle ==
  \E n \in {ColorEl, "html"}, v \in DeclaredValues :
    /\ v # declared[n]
    /\ CommitColor([C EXCEPT !.declared[n] = v], NotResolved)

ColorInit ==
  /\ env = EnvBurst
  /\ variant = "hardened"
  /\ perf \in {"low", "high"}
  /\ timing = DefaultTiming
  /\ EngineStart
  /\ LegacyInit
  /\ clock = 20000
  /\ dataColor \in DataColors
  /\ waveAttr \in Strings(MaxAttrLen)
  /\ declared = [n \in Range(ColorChain) |-> Unset]
  /\ colorStamp = 0
  /\ colorCache = Null
  /\ resolved = NotResolved
  /\ CalcIdle
  /\ GlueIdle

ColorNext ==
  \/ ColorResolve
  \/ ColorTick
  \/ Restyle

SpecColor == ColorInit /\ [][ColorNext]_vars

\* ------------------------------------------------------------- geometry
\* Lengths are in hundredths of a CSS pixel, rounded down.
Px(n) == n * 100

RECURSIVE SqrtBetween(_, _, _)
SqrtBetween(n, lo, hi) ==
  IF lo = hi THEN lo
  ELSE LET mid == (lo + hi + 1) \div 2
       IN IF mid * mid <= n THEN SqrtBetween(n, mid, hi) ELSE SqrtBetween(n, lo, mid - 1)

\* Math.sqrt of a number below 2^31.
Sqrt(n) == SqrtBetween(n, 0, 46340)

hypot(a, b) == Sqrt(a * a + b * b)
Abs(a) == IF a < 0 THEN 0 - a ELSE a
MaxOf(S) == CHOOSE m \in S : \A v \in S : v <= m

\* A number a computation returns: finite, or NaN.
Finite(v) == [finite |-> TRUE, v |-> v]
NaN == [finite |-> FALSE, v |-> 0]

\* The four builds: the hardened build and the older copy beside it in
\* src/src/wave-effect.ts, the overlay build (part_002), the legacy build (part_000).
Builds == {"hardened", "older", "overlay", "legacy"}

\* COVERAGE_EXPAND_RATIO, in tenths.
COVERAGE_EXPAND_RATIO(build) ==
  CASE build = "older" -> 19
    [] build = "overlay" -> 18
    [] OTHER -> 0

\* max * sqrt2
TimesSqrt2(v) == (v * 14142) \div 10000

\* The radius were the activation point ignored: half the diagonal alone.
maximalExpandedCoverageRadius_centred(build, x, y, width, height) ==
  LET max == hypot(width, height) \div 2
      expand == (Max2(width, height) * COVERAGE_EXPAND_RATIO(build)) \div 10
  IN Max2(TimesSqrt2(max) + expand, Px(28))

maximalExpandedCoverageRadius(build, x, y, width, height) ==
  LET dx0 == x
      dx1 == width - x
      dy0 == y
      dy1 == height - y
      h0 == hypot(dx0, dy0)
      h1 == hypot(dx1, dy0)
      h2 == hypot(dx0, dy1)
      h3 == hypot(dx1, dy1)
      cx == Abs(width \div 2 - x)
      cy == Abs(height \div 2 - y)
      diagHalf == hypot(width, height) \div 2
      max == MaxOf({dx0, dy0, dx1, dy1, h0, h1, h2, h3, diagHalf}
                   \cup IF build = "older" THEN {} ELSE {cx, cy})
      expand == (Max2(width, height) * COVERAGE_EXPAND_RATIO(build)) \div 10
  IN Max2(TimesSqrt2(max) + expand, Px(28))

\* computePointerLocal: the pointer relative to the rect, clamped to it.
pointerLocal(x, y, width, height) ==
  <<Max2(0, Min2(x, width)), Max2(0, Min2(y, height))>>

\* oversizeRatio of the legacy build, in thousandths: 0/0 is NaN, and
\* Math.min(Infinity, 1) is 1.
oversizeRatio(x, y, width, height) ==
  LET cx == width \div 2
      cy == height \div 2
      maxDist == hypot(cx, cy)
      pointerDist == hypot(x - cx, y - cy)
  IN IF maxDist = 0
     THEN IF pointerDist = 0 THEN NaN ELSE Finite(1380 - 220)
     ELSE Finite(1380 - (220 * Min2((pointerDist * 1000) \div maxDist, 1000)) \div 1000)

farthestDistance(x, y, width, height) ==
  MaxOf({hypot(x, y), hypot(width - x, y), hypot(x, height - y),
         hypot(width - x, height - y)})

\* radius = farthestDistance(...) * oversize, in onPointerDown and onKeyDown of the
\* legacy build; a product with NaN is NaN.
wake_radius(x, y, width, height) ==
  LET oversize == oversizeRatio(x, y, width, height)
  IN IF oversize.finite
     THEN Finite((farthestDistance(x, y, width, height) * oversize.v) \div 1000)
     ELSE NaN

\* The radius an activation at (x, y) of a width x height element is given.
coverageRadius(build, x, y, width, height) ==
  IF build = "legacy" THEN wake_radius(x, y, width, height)
  ELSE Finite(maximalExpandedCoverageRadius(build, x, y, width, height))

\* Element sides and pointer positions (relative to the element's left/top), in px.
Sides == {0, 4, 10, 50, 100}
Offsets == {0 - 10, 0, 5, 25, 50, 100, 110}

Measure(by, x, y) ==
  /\ measured' = [measured EXCEPT !.by = by, !.x = x, !.y = y,
                    !.radius = coverageRadius(measured.build, x, y,
                                              measured.width, measured.height)]
  /\ UNCHANGED <<engineVars, legacyVars, colorVars, painted, glueVars>>

\* A pointer activation on the element itself: the ts builds clamp the point to the
\* rect (computePointerLocal), the legacy build does not.
MeasurePointer ==
  \E ox \in Offsets, oy \in Offsets :
    LET p == IF measured.build = "legacy" THEN <<Px(ox), Px(oy)>>
             ELSE pointerLocal(Px(ox), Px(oy), measured.width, measured.height)
    IN Measure("pointer", p[1], p[2])

\* A pointer activation forwarded by a delegating ancestor: _ripple_override_coords
\* carries the point as it is.
MeasureDelegated ==
  /\ measured.build # "legacy"
  /\ \E ox \in Offsets, oy \in Offsets : Measure("delegated", Px(ox), Px(oy))

\* A keyboard activation: the centre of the rect.
MeasureKey == Measure("key", measured.width \div 2, measured.height \div 2)

GeometryInit ==
  /\ env = EnvBurst
  /\ variant = "hardened"
  /\ perf = "high"
  /\ timing = DefaultTiming
  /\ EngineStart
  /\ LegacyInit
  /\ ColorIdle
  /\ painted = NotPainted
  /\ GlueIdle
  /\ \E build \in Builds, width \in Sides, height \in Sides :
       measured = [NotMeasured EXCEPT !.build = build, !.width = Px(width),
                                       !.height = Px(height)]

GeometryNext ==
  \/ MeasurePointer
  \/ MeasureDelegated
  \/ MeasureKey

SpecGeometry == GeometryInit /\ [][GeometryNext]_vars


\* ------------------------------------------------------------- gradient
\* A colour string is a sequence of tokens: a function name, "(", ")", ",", "/",
\* " " (white space), and the texts of channels and of alpha.  Opacities are in
\* thousandths.
FuncNames == {"rgb", "rgba", "hsl", "hsla"}
AlphaTexts == {"0", "0.05", "0.15", "0.5", "1", "50%"}
Syntaxes == {"comma", "spaced", "slash"}

Channels(fn) == IF fn \in {"hsl", "hsla"} THEN <<"0", "0%", "0%">> ELSE <<"0", "0", "0">>

\* The colour as a page writes it: rgba(0,0,0,0.5), rgba(0, 0, 0, 0.5) or
\* rgba(0 0 0 / 0.5); alpha "none" leaves the alpha component out.
ColorText(fn, alpha, syntax) ==
  LET ch == Channels(fn)
      sep == CASE syntax = "comma" -> <<",">>
               [] syntax = "spaced" -> <<",", " ">>
               [] OTHER -> <<" ">>
      asep == IF syntax = "slash" THEN <<" ", "/", " ">> ELSE sep
  IN <<fn, "(", ch[1]>> \o sep \o <<ch[2]>> \o sep \o <<ch[3]>>
       \o (IF alpha = "none" THEN <<>> ELSE asep \o <<alpha>>) \o <<")">>

\* A colour that is not function-style.
HexColor == <<"#fff">>

\* parseFloat of a text: the number its longest numeric prefix denotes.
parseFloat(text) ==
  CASE text = "0" -> Finite(0)
    [] text = "0.05" -> Finite(50)
    [] text = "0.15" -> Finite(150)
    [] text = "0.5" -> Finite(500)
    [] text = "1" -> Finite(1000)
    [] text = "50%" -> Finite(50000)
    [] text = "0%" -> Finite(0)
    [] OTHER -> NaN

\* The alpha the colour has in CSS: a number or a percentage, 1 when absent.
CssAlpha(alpha) ==
  CASE alpha = "none" -> 1000
    [] alpha = "50%" -> 500
    [] OTHER -> Min2(1000, Max2(0, parseFloat(alpha).v))

\* color.replace(/\s+/g, '')
RECURSIVE StripSpace(_)
StripSpace(s) ==
  IF s = <<>> THEN <<>>
  ELSE IF Head(s) = " " THEN StripSpace(Tail(s)) ELSE <<Head(s)>> \o StripSpace(Tail(s))

\* reFuncColor: /^(rgba?|hsla?)\(([^)]+)\)$/i
MatchesFunc(s) ==
  /\ Len(s) >= 4
  /\ s[1] \in FuncNames
  /\ s[2] = "("
  /\ s[Len(s)] = ")"
  /\ \A i \in 3..(Len(s) - 1) : s[i] # ")"

\* m[2].split(','): the texts between the commas, each the tokens it is made of.
RECURSIVE SplitCommas(_, _)
SplitCommas(s, cur) ==
  IF s = <<>> THEN <<cur>>
  ELSE IF Head(s) = "," THEN <<cur>> \o SplitCommas(Tail(s), <<>>)
       ELSE SplitCommas(Tail(s), Append(cur, Head(s)))

\* parseFloat(parts[3]); the text is one token, or several tokens run together.
alphaOf(parts) ==
  IF Len(parts) < 4 THEN Finite(1000)
  ELSE IF parts[4] = <<>> THEN NaN ELSE parseFloat(parts[4][1])

\* Math.min(1, Math.max(alpha, floor)); NaN stays NaN.
rippleAlpha(alpha, floor) ==
  IF alpha.finite THEN Finite(Min2(1000, Max2(alpha.v, floor))) ELSE NaN

Scaled(a, percent) == IF a.finite THEN Finite((a.v * percent) \div 100) ELSE NaN

\* The gradient computed for a colour string, cache aside: its kind and, for a
\* function-style colour, the prefix, the channel texts and the opacity of each stop.
gradientOf(build, color) ==
  LET cleaned == StripSpace(color)
      parts == SplitCommas(SubSeq(cleaned, 3, Len(cleaned) - 1), <<>>)
      core == SubSeq(parts, 1, Min2(3, Len(parts)))
      prefix == IF cleaned[1] \in {"hsl", "hsla"} THEN "hsla" ELSE "rgba"
      a == alphaOf(parts)
  IN IF ~MatchesFunc(IF build = "legacy" THEN color ELSE cleaned)
     THEN [kind |-> "suffix", prefix |-> "", core |-> <<color>>, stops |-> <<>>]
     ELSE CASE build = "legacy" ->
                 LET p1 == IF a.finite THEN Finite(Min2(1000, a.v)) ELSE NaN
                 IN [kind |-> "func", prefix |-> prefix, core |-> core,
                     stops |-> <<p1, Scaled(p1, 85), Scaled(p1, 70)>>]
            [] build = "older" ->
                 LET ra == rippleAlpha(a, 180)
                 IN [kind |-> "func", prefix |-> prefix, core |-> core,
                     stops |-> <<Scaled(ra, 55), Scaled(ra, 25), Scaled(ra, 10)>>]
            [] OTHER ->
                 [kind |-> "func", prefix |-> prefix, core |-> core,
                  stops |-> <<rippleAlpha(a, 150)>>]

DEFAULT_GRADIENT == [kind |-> "default", prefix |-> "", core |-> <<>>, stops |-> <<>>]

\* gm.get(color): the entry's place in the map, 0 when there is none.
EntryOf(gm, color) ==
  IF \E i \in 1..Len(gm) : gm[i].k = color
  THEN CHOOSE i \in 1..Len(gm) : gm[i].k = color
  ELSE 0

\* computeGradient(color) (getRippleBg in the legacy build, which has no cache);
\* color is <<>> for null.
computeGradient(p, tier, color) ==
  LET i == EntryOf(p.gm, color)
      localTTL == IF tier = "low" THEN 20000 * 4 ELSE 20000
      out == gradientOf(p.build, color)
      entry == [k |-> color, v |-> out, t |-> p.now]
  IN IF color = <<>> THEN [p EXCEPT !.arg = color, !.out = DEFAULT_GRADIENT]
     ELSE IF p.build = "legacy" THEN [p EXCEPT !.arg = color, !.out = out]
     ELSE IF i # 0 /\ p.now - p.gm[i].t < localTTL
          THEN [p EXCEPT !.arg = color, !.out = p.gm[i].v]
          ELSE [p EXCEPT !.arg = color, !.out = out,
                         !.gm = IF i # 0 THEN [p.gm EXCEPT ![i] = entry]
                                ELSE Append(p.gm, entry)]

\* The last instant of a gradient run, in ms.
MaxPaintClock == 80000

CommitPaint(p) ==
  /\ painted' = p
  /\ UNCHANGED <<engineVars, legacyVars, colorVars, measured, glueVars>>

\* An activation on a surface whose colour resolves to the page's colour.
Paint ==
  CommitPaint(computeGradient(painted, perf,
                              ColorText(painted.fn, painted.alpha, painted.syntax)))

\* An activation on a surface whose colour is not function-style.
PaintHex == CommitPaint(computeGradient(painted, perf, HexColor))

\* An activation on a surface with no colour.
PaintDefault == CommitPaint(computeGradient(painted, perf, <<>>))

PaintTick ==
  /\ painted.now + 20000 <= MaxPaintClock
  /\ CommitPaint([painted EXCEPT !.now = @ + 20000])

PaintInit ==
  /\ env = EnvBurst
  /\ variant = "hardened"
  /\ perf \in {"low", "high"}
  /\ timing = DefaultTiming
  /\ EngineStart
  /\ LegacyInit
  /\ ColorIdle
  /\ measured = NotMeasured
  /\ GlueIdle
  /\ \E build \in Builds, fn \in FuncNames, alpha \in AlphaTexts \cup {"none"},
        syntax \in Syntaxes :
       painted = [NotPainted EXCEPT !.build = build, !.fn = fn, !.alpha = alpha,
                                    !.syntax = syntax]

PaintNext ==
  \/ Paint
  \/ PaintHex
  \/ PaintDefault
  \/ PaintTick

SpecGradient == PaintInit /\ [][PaintNext]_vars

\* ================================================================ claims
\* Ripples of el that are expanding or fading: attached and not yet recycled.
LiveRipples(el) == {n \in Range(children[el]) : "recycled" \notin cls[n]}

\* Ripples of el that are expanding: attached, neither fading nor recycled.
Expanding(el) == {n \in LiveRipples(el) : "fading" \notin cls[n]}

\* C1, as stated: on every surface and in every reachable state the ripples that
\* are expanding or fading number at most getMaxRipples().
C1_LiveWithinCap ==
  \A el \in Surfaces : Cardinality(LiveRipples(el)) <= getMaxRipples(W)

\* C2, as stated: pointer activations on one surface without any release never
\* leave more than getMaxRipples() ripples of that surface outside the fading state.
C2_ExpandingWithinCap ==
  env.name = "burst" =>
    \A el \in Surfaces : Cardinality(Expanding(el)) <= getMaxRipples(W)

\* Fade invocation i is pending for node n on surface el and has not cleaned up yet.
FadePending(n, el) ==
  \E i \in 1..Len(fades) :
    fades[i].node = n /\ fades[i].el = el /\ ~fades[i].removed

\* Node n is out of el's active set and out of the fading state.
Reclaimed(n, el) == n \notin Range(active[el]) /\ "fading" \notin cls[n]

\* The ripple nodes and the surfaces that the fair specification can bring into play.
FairNodes == 1..EnvMixed.nodes

FairSurfaces == EnvMixed.focus \cup {HitTest(pt) : pt \in EnvMixed.points}

\* C3: once fadeOutAndRemoveRipple(ripple, el) has put a ripple into fading, the
\* ripple is eventually out of el's active set and out of the fading state, by the
\* fallback timer alone; and the cleanup of one invocation has run at most once while
\* its fallback timer is pending, and exactly once when that timer has fired, whether
\* or not the completion event came first.
C3_FadeEndsOnce ==
  /\ [](\A i \in 1..Len(fades) :
          /\ fades[i].runs <= 1
          /\ fades[i].runs = 1 <=> fades[i].removed
          /\ onEnd(W, i, "timer").fades[i].runs = 1)
  /\ \A n \in FairNodes, el \in FairSurfaces : FadePending(n, el) ~> Reclaimed(n, el)

\* The completion event has run the cleanup of an invocation whose fallback timer is
\* still to fire.
C3_Witness ==
  \E i \in 1..Len(fades) :
    /\ fades[i].removed
    /\ fades[i].runs = 1
    /\ "fading" \notin cls[fades[i].node]

\* The tasks that the probes among tasks schedule while they run.
SpawnedBy(tasks) ==
  LET sp == SelectSeq(tasks, LAMBDA t : t.kind = "probe" /\ t.spawn)
  IN [i \in 1..Len(sp) |-> Probe(sp[i].id + 10, FALSE, FALSE)]

\* C4: the frame callback runs the tasks queued before it in enqueue order, each
\* exactly once, then the tasks those tasks scheduled, whether or not a task throws,
\* and leaves the queue empty with no frame requested.
C4_TasksRunInOrder ==
  [][(rafId /\ (ran' # <<>> \/ q' # q) /\ Len(q') <= Len(q))
       => /\ ran' = q \o SpawnedBy(q)
          /\ q' = <<>>
          /\ ~rafId']_vars

\* A frame callback has run a task that throws and then a task queued after it.
C4_Witness ==
  \E i \in 1..Len(ran) :
    /\ ran[i].throws
    /\ i < Len(ran)
    /\ ran[i + 1].kind = "probe"
    /\ ran[i + 1].id = ran[i].id + 1

C6_UpgradeIdempotent ==
  \A e \in Surfaces :
    LET once == upgradeElement(W, e)
    IN /\ e \in once.upgraded
       /\ e \in once.hasData
       /\ upgradeElement(once, e) = once
       /\ e \in upgraded => once = W

\* The host has called upgradeElement on an element that was already upgraded and
\* whose pool holds a node.
C6_Witness ==
  /\ lastEvent.kind = "upgrade"
  /\ lastEvent.primary
  /\ pool[lastEvent.queued] # <<>>

\* Pointer positions whose target lies under a delegating ancestor.
DelegatedPoints ==
  {pt \in Points :
     \E i \in 1..Len(AncestorChain(HitTest(pt))) :
       DelegateTargetOf(AncestorChain(HitTest(pt))[i]) # "none"}

\* What a primary-button pointer-down at pt does in the current state: the handler,
\* then the frame task it queued.
DelegatedPress(pt) ==
  LET w2 == globalPointerHandler(W, 0, pt)
      dt == DelegateTargetOf("D")
  IN /\ Len(w2.q) = Len(q) + 1
     /\ LET t == w2.q[Len(w2.q)]
            w3 == pointerTask(w2, t)
        IN /\ t.el = dt
           /\ t.p = <<pt[1] - RectOf(dt).left, pt[2] - RectOf(dt).top>>
           /\ Len(w3.lastFrame) = 1
           /\ w3.lastFrame[1].el = dt
           /\ w3.lastFrame[1].node \in Range(w3.children[dt])
           /\ w3.lastFrame[1].p = t.p
           /\ \A j \in 1..Len(w2.q) : w2.q[j].el = "P" => j <= Len(q) /\ q[j] = w2.q[j]

C8_RateLimited ==
  [][wakeNext' # wakeNext =>
       LET el == wakeNodes'[wakeNext'].el
       IN lastAllowed[el] = 0 \/ now - lastAllowed[el] >= MIN_RIPPLE_INTERVAL]_vars

\* C9, as stated: while the rapid-gesture flag is set no pointer-down, delegated
\* pointer-down or Space/Enter key-down queues a ripple.
C9_SuppressedCreatesNothing ==
  (lastEvent.kind \in {"pointerdown", "keydown"} /\ lastEvent.rapid)
    => lastEvent.queued = "none"

\* The wave attribute holds a c= / c: directive: a c at its start or after white
\* space, then, white space apart, a separator.
HasDirective(s) ==
  \E i \in 1..Len(s) :
    /\ s[i] = "c"
    /\ i = 1 \/ s[i - 1] \in Spaces
    /\ LET j == SkipIn(s, i + 1, Spaces) IN j <= Len(s) /\ s[j] \in Seps

\* The wave attribute is one directive and nothing else; its value.
IsDirective(s) ==
  LET u == Trim(s)
      j == SkipIn(u, 2, Spaces)
  IN /\ u # <<>> /\ u[1] = "c"
     /\ j <= Len(u) /\ u[j] \in Seps
     /\ \A k \in (j + 1)..Len(u) : u[k] \in ValueClass
     /\ Trim(SubSeq(u, j + 1, Len(u))) # <<>>

DirectiveValue(s) ==
  LET u == Trim(s) IN Trim(SubSeq(u, SkipIn(u, 2, Spaces) + 1, Len(u)))

NoDataColor == dataColor = Absent \/ Trim(dataColor) = <<>>

\* C10, as stated: a resolution that does not use the cache returns the trimmed
\* data-ripple-color when that is non-empty; otherwise the value of the c= / c:
\* directive when the wave attribute is one; otherwise, when the wave attribute holds
\* no directive, the first non-empty --ripple-default-color of the element and its
\* ancestors, or null.
C10_ColorPrecedence ==
  (resolved.called /\ ~resolved.cached) =>
    /\ ~NoDataColor => resolved.value = Trim(dataColor)
    /\ (NoDataColor /\ IsDirective(waveAttr)) => resolved.value = DirectiveValue(waveAttr)
    /\ (NoDataColor /\ ~HasDirective(waveAttr))
         => resolved.value = WalkDefault(declared, ColorChain)


\* The nodes of the pointer-activated ripples whose release listeners are registered.
ListeningNodes == {ends[i].node : i \in 1..Len(ends)}

\* A release event of the given type on target, arriving when every ripple has passed
\* its fade-start point, puts the attached ripples listening on target into fading.
ReleaseStartsFade(type, target) ==
  LET w2 == dispatchRelease(W, ReleasePath(target, type), type, {})
  IN \A i \in 1..Len(ends) :
       (ends[i].el = target /\ type \in ends[i].types /\ NodeParent(W, ends[i].node) # "none")
         => "fading" \in w2.cls[ends[i].node]

\* A release event arriving while the ripples in early have not reached their
\* fade-start point, max(0, expansionDuration - fadeOffset) after activation, leaves
\* those of them that are not fading out of the fading state.
ReleaseKeepsEarly(type, target, early) ==
  LET w2 == dispatchRelease(W, ReleasePath(target, type), type, early)
  IN \A n \in early : "fading" \notin cls[n] => "fading" \notin w2.cls[n]

\* C11, as stated: a release event on the surface starts the fade of its
\* pointer-activated ripples; in the hardened variant no release event, on the surface
\* or on a delegating ancestor that forwards it, starts the fade of a ripple before
\* the ripple's fade-start point.
C11_ReleaseFadeNotEarly ==
  \A type \in ReleaseTypes, target \in Elems :
    /\ ReleaseStartsFade(type, target)
    /\ variant = "hardened" =>
         \A early \in SUBSET ListeningNodes : ReleaseKeepsEarly(type, target, early)


\* A keyboard timer is pending for node n on surface el.
KeyPending(n, el) ==
  \E i \in 1..Len(keyTimers) : keyTimers[i].node = n /\ keyTimers[i].el = el

\* The ripple nodes and the surfaces that the keyboard specification can bring into play.
KeyNodes == 1..EnvKeyFade.nodes

KeySurfaces == EnvKeyFade.focus

\* When a keyboard timer fires, its ripple is in the fading state and a fade invocation
\* of it is pending, with no release event involved.
KeyTimerFades ==
  [][Len(keyTimers') < Len(keyTimers) =>
       \E i \in 1..Len(keyTimers) :
         /\ keyTimers' = DropAt(keyTimers, i)
         /\ "fading" \in cls'[keyTimers[i].node]
         /\ \E j \in 1..Len(fades') :
              /\ fades'[j].node = keyTimers[i].node
              /\ fades'[j].el = keyTimers[i].el
              /\ ~fades'[j].removed]_vars

\* A ripple whose keyboard timer is pending gets into fading, and a ripple whose fade
\* is pending is reclaimed, without any release event.
KeyRippleRecycled ==
  \A n \in KeyNodes, el \in KeySurfaces :
    /\ KeyPending(n, el) ~> ("fading" \in cls[n])
    /\ FadePending(n, el) ~> Reclaimed(n, el)

\* C12, as stated: the timer armed when a keyboard ripple is created fires before the
\* ripple's nominal expansion duration has elapsed; when it fires the ripple starts
\* fading, without any release event, and the ripple is then reclaimed.
C12_KeyFadeBeforeNominal ==
  /\ [](\A i \in 1..Len(keyTimers) : keyTimers[i].delay < scaledDuration(W))
  /\ KeyTimerFades
  /\ KeyRippleRecycled

\* C12, amended: the timer armed when a keyboard ripple is created has a delay of at
\* least 120 ms; in the overlay variant it is 120 ms less than the nominal expansion
\* duration, in the hardened variant it is 20 ms more than the fade-start point
\* max(0, expansionDuration - fadeOffset) unless that is below 120 ms.  When it fires
\* the ripple starts fading, without any release event, and the ripple is then
\* reclaimed.
C12_KeyFadeAtArmedDelay ==
  /\ [](\A i \in 1..Len(keyTimers) :
          LET d == keyTimers[i].delay
          IN /\ d >= 120
             /\ variant = "overlay" => scaledDuration(W) - d = 120
             /\ variant = "hardened" =>
                  /\ d >= desiredStart(W) + 20
                  /\ d > 120 => d = desiredStart(W) + 20)
  /\ KeyTimerFades
  /\ KeyRippleRecycled

\* The timer of the only keyboard ripple created so far has fired, and the fade it
\* started is pending; the timer was armed for later than the nominal duration.
C12_Witness ==
  /\ nextNode = 1
  /\ keyTimers = <<>>
  /\ q = <<>>
  /\ Len(fades) = 1
  /\ ~fades[1].removed
  /\ "fading" \in cls[1]
  /\ variant = "hardened"
  /\ keyFadeDelay(W) > scaledDuration(W)


\* What the frame task of a pointer activation on el does when it finds el's active
\* set at capacity: the oldest ripple of the set is fading, with a fade invocation
\* pending, and it is not the node the task attaches.
EvictsOldest(el) ==
  LET w2 == pointerTask(W, Task("ptr", el, <<0, 0>>, FALSE))
      old == Head(active[el])
  IN Len(active[el]) >= getMaxRipples(W) =>
       /\ "fading" \in w2.cls[old]
       /\ \E j \in 1..Len(w2.fades) :
            w2.fades[j].node = old /\ w2.fades[j].el = el /\ ~w2.fades[j].removed
       /\ w2.lastFrame[1].node # old

\* Ripple n is shown on el: attached under it and not recycled.
Shown(n, el, ch, cl) == n \in Range(ch[el]) /\ "recycled" \notin cl[n]

\* Ripple n has been put into fading since it was last attached: it is fading, or
\* (hardened) a fade cleanup has released it, which leaves the inline opacity that the
\* next activation's cssText assignment drops.
FadedSinceAttached(n) ==
  "fading" \in cls[n] \/ (variant = "hardened" /\ "opacity" \in style[n])

\* C13, as stated: the frame task of a pointer activation that finds the active set
\* at capacity puts the oldest ripple of the set into fading before it attaches the
\* new one; and no ripple is taken off a surface (detached, or recycled in place)
\* without having been put into fading since it was attached.
C13_EvictedFadeNoneDropped ==
  /\ [](\A el \in Surfaces : EvictsOldest(el))
  /\ [][\A el \in Surfaces, n \in Nodes :
          (Shown(n, el, children, cls) /\ ~Shown(n, el, children', cls'))
            => FadedSinceAttached(n)]_vars


\* The release of the variant that runs.
Released(w, el, n) ==
  IF w.variant = "hardened" THEN releaseRippleNode(w, el, n) ELSE recycleRippleNode(w, el, n)

\* C14: each surface's idle pool holds at most getMaxRipples() nodes, and a release
\* that finds the pool at that capacity leaves the pool as it is.
C14_PoolWithinCap ==
  \A el \in Surfaces :
    /\ Len(pool[el]) <= getMaxRipples(W)
    /\ Len(pool[el]) >= getMaxRipples(W) =>
         \A n \in Nodes : Released(W, el, n).pool[el] = pool[el]

\* A release has found the pool of a surface at capacity: a node that was cloned is
\* neither attached, nor in a pool, nor awaited by a fade cleanup, next to a full pool.
C14_Witness ==
  \E el \in Surfaces, n \in 1..nextNode :
    /\ variant = "hardened"
    /\ Len(pool[el]) = getMaxRipples(W)
    /\ NodeParent(W, n) = "none"
    /\ \A s \in Surfaces : n \notin Range(pool[s])
    /\ \A i \in 1..Len(fades) : fades[i].node # n


\* What belongs to surface s in state w: its pool, its active set, the ripple nodes
\* attached under it, and their classes and inline styles.
SurfaceState(w, s) ==
  [pool |-> w.pool[s], active |-> w.active[s], children |-> w.children[s],
   cls |-> [n \in Range(w.children[s]) |-> w.cls[n]],
   style |-> [n \in Range(w.children[s]) |-> w.style[n]]]

\* The states that one operation on surface el can lead to: the frame task of a
\* pointer or keyboard activation, a release event delivered to el, a Space/Enter
\* key-down, a host call of clearRipples, the cleanup of a fade invoked for el.
AfterOperationOn(el) ==
  {pointerTask(W, Task("ptr", el, <<0, 0>>, FALSE)),
   keyTask(W, Task("key", el, <<>>, FALSE)),
   onKeyDown(W, el, "Enter"),
   clearRipples(W, el)}
  \cup {dispatchRelease(W, <<el>>, type, {}) : type \in ReleaseTypes}
  \cup {onEnd(W, i, "timer") : i \in {j \in 1..Len(fades) : fades[j].el = el}}

\* C15, as stated: an operation on one surface leaves the pool, the active set and
\* the ripples of every other surface unchanged.
C15_OtherSurfacesUntouched ==
  \A el \in Surfaces, s \in Surfaces :
    s # el => \A w2 \in AfterOperationOn(el) : SurfaceState(w2, s) = SurfaceState(W, s)


\* The fade invocations pending in w for surface el.
FadesFor(w, el) == SelectSeq(w.fades, LAMBDA f : f.el = el)

\* What a release event of the given type on the delegating ancestor anc of delegate
\* dt does in the current state.  While the delegated activation is not yet forwarded
\* (the flag is set) it starts one fade for every ripple in dt's active set and
\* clears the flag; otherwise it starts none.  A second release right after it starts
\* none.  No listener of dt runs: its endRipple closures stay as they are.
ForwardedRelease(anc, dt, type) ==
  LET w2 == dispatchRelease(W, ReleasePath(anc, type), type, {})
      w3 == dispatchRelease(w2, ReleasePath(anc, type), type, {})
      started == Len(FadesFor(w2, dt)) - Len(FadesFor(W, dt))
  IN /\ dt \in delegateActive =>
          /\ \A n \in Range(active[dt]) :
               /\ "fading" \in w2.cls[n]
               /\ \E j \in 1..Len(w2.fades) :
                    w2.fades[j].node = n /\ w2.fades[j].el = dt /\ ~w2.fades[j].removed
          /\ started = Len(active[dt])
     /\ dt \notin delegateActive => started = 0
     /\ dt \notin w2.delegateActive
     /\ FadesFor(w3, dt) = FadesFor(w2, dt)
     /\ SelectSeq(w2.ends, LAMBDA c : c.el = dt) = SelectSeq(ends, LAMBDA c : c.el = dt)

\* C16: after a delegated activation a release event on the delegating ancestor puts
\* every ripple of the delegate's active set into fading, once per delegated
\* activation, and runs no listener of the delegate.
C16_ForwardedReleaseFadesOnce ==
  \A type \in ReleaseTypes : ForwardedRelease("D", DelegateTargetOf("D"), type)

\* A release forwarded from the delegating ancestor has started the fade of the
\* delegate's ripple: the ripple's own release listeners are all still registered.
C16_Witness ==
  /\ lastEvent.kind = "release"
  /\ "T" \notin delegateActive
  /\ \E i \in 1..Len(fades), j \in 1..Len(ends) :
       /\ fades[i].el = "T"
       /\ ends[j].el = "T"
       /\ ends[j].node = fades[i].node
       /\ ends[j].types = ReleaseTypes
       /\ "fading" \in cls[fades[i].node]


\* C17, as stated: every ripple that is created is eventually faded and reclaimed.
\* Whenever a ripple is expanding on a surface, a later state has it no longer
\* attached there as a ripple (its node was detached and recycled), given that the
\* pointer that went down goes up, frames run and timers fire.
TapNodes == 1..EnvTap.nodes
TapSurfaces == {"P", "T"}

C17_EveryRippleReclaimed ==
  \A n \in TapNodes, el \in TapSurfaces :
    (n \in Expanding(el)) ~> ~Shown(n, el, children, cls)


\* C18, as stated: for every element width and height >= 0, zero included, and every
\* activation point, the coverage radius computed is a finite number, at least 28.
C18_RadiusFiniteAboveFloor ==
  measured.by # "none" => measured.radius.finite /\ measured.radius.v >= Px(28)

\* The activation point measured lies inside the element, which has an area; the
\* build is one of those that compute maximalExpandedCoverageRadius.
InsideElement ==
  /\ measured.by # "none"
  /\ measured.build # "legacy"
  /\ measured.width > 0 /\ measured.height > 0
  /\ 0 <= measured.x /\ measured.x <= measured.width
  /\ 0 <= measured.y /\ measured.y <= measured.height

AtCorner == measured.x \in {0, measured.width} /\ measured.y \in {0, measured.height}

\* The radius an activation at the centre of the measured element is given.
CentreRadius ==
  maximalExpandedCoverageRadius(measured.build, measured.width \div 2,
                                measured.height \div 2, measured.width, measured.height)

\* C19, as stated: for one element the radius for an activation at a corner exceeds
\* the radius for an activation at the centre, and the radius for every activation
\* point inside the element is at least the centre radius.
C19_CornerExceedsCentre ==
  InsideElement =>
    /\ measured.radius.v >= CentreRadius
    /\ AtCorner => measured.radius.v > CentreRadius

\* C19, amended: the radius for every activation point inside the element is at
\* least the centre radius; the radius for an activation at a corner exceeds the
\* centre radius whenever it is above the floor of 28 px, as it is for a 100x50
\* element.  (Below the floor both radii are 28 px.)
C19_CornerExceedsCentreAboveFloor ==
  InsideElement =>
    /\ measured.radius.v >= CentreRadius
    /\ AtCorner /\ measured.radius.v > Px(28) => measured.radius.v > CentreRadius
    /\ AtCorner /\ measured.width = Px(100) /\ measured.height = Px(50)
         => measured.radius.v > CentreRadius

\* A press at the corner (0,0) of a 100x50 element got a radius above the centre's.
C19_Witness ==
  /\ InsideElement
  /\ measured.by = "pointer"
  /\ measured.width = Px(100) /\ measured.height = Px(50)
  /\ measured.x = 0 /\ measured.y = 0
  /\ measured.radius.v > CentreRadius

\* The resolver's minimum alpha in each build; the legacy build has none.
AlphaFloor(build) ==
  CASE build = "legacy" -> 0
    [] build = "older" -> 180
    [] OTHER -> 150

\* computeGradient has just returned the gradient of the page's function-style colour.
PaintedFunc ==
  painted.arg = ColorText(painted.fn, painted.alpha, painted.syntax)

\* The first stop is a colour of the three channels of the input.
FirstStopOf(out) ==
  /\ out.kind = "func"
  /\ Len(out.stops) >= 1
  /\ out.core = <<<<Channels(painted.fn)[1]>>, <<Channels(painted.fn)[2]>>,
                  <<Channels(painted.fn)[3]>>>>

\* C20, as stated: for a function-style colour with alpha a the first stop of the
\* gradient computeGradient returns has opacity max(a, floor), a being 1 when the
\* colour has no alpha component.
C20_FirstStopOpacity ==
  PaintedFunc =>
    /\ FirstStopOf(painted.out)
    /\ painted.out.stops[1] =
         Finite(Max2(CssAlpha(painted.alpha), AlphaFloor(painted.build)))

\* The ripple nodes attached under el: what el.querySelectorAll('.ripple') returns.
AttachedUnder(el) == Range(RipplesUnder(W, SubtreeSurfaces(el)))

\* clearRipples(el), were it called now, leaves el's active set empty and every
\* ripple node attached under el fading.
ClearFadesAll(el) ==
  LET w2 == clearRipples(W, el)
  IN /\ w2.active[el] = <<>>
     /\ \A n \in AttachedUnder(el) : "fading" \in w2.cls[n]

\* The host has just called clearRipples(el) with node n attached under el.
JustCleared(n, el) ==
  /\ lastEvent.kind = "clear"
  /\ lastEvent.queued = el
  /\ n \in AttachedUnder(el)

\* C21: after clearRipples(el), el's active set is empty and every ripple node
\* attached under el at the call is fading; each of them is eventually out of the
\* fading state and out of el's active set (recycled), whether or not an activation
\* follows.
C21_ClearFadesAndRecycles ==
  /\ [](\A el \in Surfaces : ClearFadesAll(el))
  /\ [](\A el \in Surfaces : lastEvent.kind = "clear" /\ lastEvent.queued = el
          => active[el] = <<>> /\ \A n \in AttachedUnder(el) : "fading" \in cls[n])
  /\ \A n \in FairNodes, el \in FairSurfaces : JustCleared(n, el) ~> Reclaimed(n, el)

\* The host has cleared a surface that showed an expanding ripple: the ripple is
\* fading, its cleanup is pending and the surface's active set is empty.
C21_Witness ==
  \E n \in FairNodes, el \in FairSurfaces :
    /\ JustCleared(n, el)
    /\ FadePending(n, el)
    /\ "recycled" \notin cls[n]
    /\ active[el] = <<>>

\* ------------------------------------------------------------------ config
\* Arguments a host may hand to config.setFadeDuration: numbers (in tenths of a
\* millisecond, so that 50.5 and 4999.9 can be told from 50 and 4999), NaN, and
\* values that are not numbers (a numeric string, undefined).
Num(tenths) == [type |-> "number", val |-> Finite(tenths)]
NotANumber(type, tenths) == [type |-> type, val |-> Finite(tenths)]

FadeArgs ==
  {Num(-3000), Num(0), Num(500), Num(505), Num(3007), Num(49999), Num(50000),
   Num(60000), [type |-> "number", val |-> NaN], NotANumber("string", 3000),
   NotANumber("undefined", 0)}

\* ms | 0 for a finite number within the int32 range: truncation towards zero.
ToInt32(tenths) == IF tenths >= 0 THEN tenths \div 10 ELSE -((-tenths) \div 10)

\* typeof ms === 'number' && ms > 50 && ms < 5000 (every comparison with NaN is false).
InFadeRange(ms) ==
  ms.type = "number" /\ ms.val.finite /\ ms.val.v > 500 /\ ms.val.v < 50000

\* setFadeDuration with the bounds included.
setFadeDuration_inclusive(w, ms) ==
  IF w.variant = "overlay"
  THEN IF ms.type = "number" /\ ms.val.finite /\ ms.val.v >= 500 /\ ms.val.v <= 50000
       THEN [w EXCEPT !.RIPPLE_FADE_DURATION = ToInt32(ms.val.v)]
       ELSE w
  ELSE w

\* config.setFadeDuration(ms).  The hardened variant keeps the function with an empty
\* body; the overlay variant assigns the module-level RIPPLE_FADE_DURATION.
setFadeDuration(w, ms) ==
  IF w.variant = "overlay"
  THEN IF InFadeRange(ms)
       THEN [w EXCEPT !.RIPPLE_FADE_DURATION = ToInt32(ms.val.v)]
       ELSE w
  ELSE w

\* The host calls config.setFadeDuration.
HostSetFadeDuration ==
  \E ms \in FadeArgs :
    Commit([setFadeDuration(W, ms) EXCEPT !.lastEvent =
      [kind |-> "setFadeDuration", primary |-> TRUE, rapid |-> rapid, queued |-> "none"]])

\* The engine under keyboard activation with a host that adjusts the fade duration
\* and clears ripples.
ConfigInit ==
  /\ env = EnvKeyFade
  /\ variant \in Variants
  /\ perf \in PerfLevels
  /\ timing = DefaultTiming
  /\ EngineStart
  /\ LegacyInit
  /\ ColorIdle
  /\ CalcIdle
  /\ GlueIdle

ConfigNext ==
  \/ KeyDown
  \/ Frame
  \/ TransitionEnd
  \/ FadeTimer
  \/ KeyTimer
  \/ HostClear
  \/ HostSetFadeDuration

SpecConfig == ConfigInit /\ [][ConfigNext]_vars

\* ------------------------------------------------------------------ C22
\* The duration of the fade that fadeOutAndRemoveRipple(n, el) would start right
\* after config.setFadeDuration(ms) returned.
FadeAfterSet(ms, n, el) ==
  LET w2 == fadeOutAndRemoveRipple(setFadeDuration(W, ms), n, el)
  IN w2.fades[Len(w2.fades)].duration

\* The (node, surface, duration) of the fades pending in a sequence of fades.
FadeKeys(fs) == {<<fs[i].node, fs[i].el, fs[i].duration>> : i \in DOMAIN fs}

Upgraded(el) == el \in upgraded /\ el \in hasData

\* The last input event was an activation that queued a ripple for el.
ActivatedOn(el) ==
  lastEvent.kind \in {"pointerdown", "keydown"} /\ lastEvent.queued = el

\* The last frame attached a ripple to el.
RippledOn(el) == \E i \in DOMAIN lastFrame : lastFrame[i].el = el

\* C23: no host call is needed for a [wave] element that was not upgraded at
\* initialisation: once an activation on it has queued a ripple the element is
\* upgraded (surface class and per-surface state), and so it is when the frame
\* attaches that ripple.
C23_ActivationUpgrades ==
  \A el \in Surfaces :
    (ActivatedOn(el) \/ RippledOn(el)) /\ lastEvent.kind # "upgrade" => Upgraded(el)

\* ------------------------------------------------------------------ C24
\* The legacy engine with one focused surface and a key that is pressed again and
\* again, at the instants 0, 100, 200, ... ms and at most once at each.  Timeouts and
\* animation frames are prompt: a timeout runs at the instant it is due, and a
\* callback that is due runs before the next key-down and before time passes.
LimiterBounded(l) ==
  /\ l.wakeNext <= MaxLimiterSpans
  /\ Len(l.timeouts) <= MaxLimiterTimeouts

\* No timeout is due and no frame callback is pending.
LimiterQuiet ==
  /\ wakeAnim = {}
  /\ \A i \in 1..Len(timeouts) : timeouts[i].due > now

\* A key-down has been handled at this instant: its clearRipples or its ripple set
\* a timeout counted from now.
PressedNow ==
  \E i \in 1..Len(timeouts) :
    timeouts[i].due \in {now + REMOVE_DELAY, now + BASE_DURATION - 140}

LimiterKeyDown ==
  /\ LimiterQuiet
  /\ now % 100 = 0
  /\ ~PressedNow
  /\ LET l2 == wake_keyDown(L, wake_path(L, "P"), "Enter")
     IN LimiterBounded(l2) /\ CommitLegacy(l2)

\* Time passes until the next timeout is due or the next instant of the key.
LimiterAdvance ==
  LET tick == now - (now % 100) + 100
      dues == {timeouts[i].due : i \in 1..Len(timeouts)} \cup {tick}
      next == CHOOSE t \in dues : \A u \in dues : t <= u
  IN /\ LimiterQuiet
     /\ next <= MaxLimiterTime
     /\ CommitLegacy([L EXCEPT !.now = next])

LimiterNext ==
  \/ LimiterKeyDown
  \/ WakeFrame
  \/ WakeTimeout
  \/ LimiterAdvance

SpecLimiter == LegacySpecInit /\ [][LimiterNext]_vars

\* The spans created and not yet removed from the document.
AliveSpans == {n \in WakeIds : wakeNodes[n].el # "none"}

\* C24: the ripples alive in the document never number more than GLOBAL_MAX_RIPPLES.
C24_AliveWithinGlobalCap == Cardinality(AliveSpans) <= GLOBAL_MAX_RIPPLES

\* ------------------------------------------------------------------ C25
\* C25: at most one frame callback requested by schedule is pending, it is pending
\* exactly while rafId is set, and it is pending whenever a task waits in the queue;
\* the callback, when it runs, applies every task queued since the frame before, in
\* one go, and leaves the queue empty.
C25_OneFramePending ==
  /\ [](/\ rafRequests <= 1
        /\ rafId <=> rafRequests = 1
        /\ q # <<>> => rafId)
  /\ [][rafRequests' < rafRequests =>
          /\ q' = <<>>
          /\ Len(ran') >= Len(q)
          /\ SubSeq(ran', 1, Len(q)) = q]_vars

\* Two activations were queued before the frame, the one callback has just applied
\* both, and none is pending.
C25_Witness ==
  /\ Len(ran) >= 2
  /\ \A i \in 1..2 : ran[i].kind \in {"ptr", "key"}
  /\ rafRequests = 0
  /\ ~rafId

\* ------------------------------------------------------------------ C26
\* Node n is in el's pool, or it is not attached under el, in state w.
PooledOrDetached(w, el, n) ==
  n \in Range(w.pool[el]) \/ n \notin Range(w.children[el])

\* C26: whenever the cleanup of a pending fade hands its node to release, the node
\* is afterwards in the surface's pool or detached from the surface: none stays
\* attached under the surface without being in its pool.
C26_ReleasedPooledOrDetached ==
  \A i \in 1..Len(fades) :
    ~fades[i].removed =>
      PooledOrDetached(onEnd(W, i, "timer"), fades[i].el, fades[i].node)

\* ------------------------------------------------------------------ C27
\* The colour cache over time: a surface with no data-ripple-color and no colour
\* directive resolves its colour again and again while the page restyles and time
\* passes in steps of 10 s, long enough for the low tier's cache to expire.
CacheTick ==
  /\ clock + 10000 <= MaxCacheClock
  /\ CommitColor([C EXCEPT !.clock = @ + 10000], NotResolved)

CacheInit ==
  /\ env = EnvBurst
  /\ variant \in Variants
  /\ perf \in PerfLevels
  /\ timing = DefaultTiming
  /\ EngineStart
  /\ LegacyInit
  /\ ColorIdle
  /\ CalcIdle
  /\ GlueIdle

CacheNext ==
  \/ ColorResolve
  \/ CacheTick
  \/ Restyle

SpecCache == CacheInit /\ [][CacheNext]_vars

\* The TTL the claim names: 20 seconds, four times that on the low tier.
ClaimedTTL == IF perf = "low" THEN 4 * 20000 ELSE 20000

\* C27: a resolution made less than the TTL after the default colour was stored
\* returns the stored value (a stored 'not found' included) and leaves the cache as
\* it is; a resolution made at or after the TTL, or with nothing stored, walks the
\* ancestor chain and stores what it found with the current time.
C27_CacheReusedWithinTTL ==
  [][resolved'.called =>
       IF colorStamp # 0 /\ clock - colorStamp < ClaimedTTL
       THEN /\ resolved'.value = colorCache
            /\ resolved'.cached
            /\ colorCache' = colorCache
            /\ colorStamp' = colorStamp
       ELSE /\ resolved'.value = WalkDefault(declared, ColorChain)
            /\ ~resolved'.cached
            /\ colorCache' = WalkDefault(declared, ColorChain)
            /\ colorStamp' = clock]_vars

\* On the low tier a 'not found' stored 70 s ago has just been reused although the
\* surface declares a colour by now.
C27_Witness ==
  /\ perf = "low"
  /\ resolved.called /\ resolved.cached
  /\ resolved.value = Null
  /\ clock - colorStamp = 70000
  /\ WalkDefault(declared, ColorChain) # Null

\* ------------------------------------------------------------------ C28
\* The target has no ancestor (itself included) that delegates to a [wave] element
\* and none that carries the wave attribute.
NoSurfaceFor(target) ==
  \A e \in Range(AncestorChain(target)) :
    /\ ~HasWave(e)
    /\ DelegateTargetOf(e) = "none" \/ ~HasWave(DelegateTargetOf(e))

\* The pointer-down is one the engine has to ignore.
Ignorable(button, pt) == button # 0 \/ NoSurfaceFor(HitTest(pt))

\* What a pointer-down may not touch when it is ignored: the task queue and the
\* frame request, the nodes created and attached, every pool and every active set,
\* and the listeners, flags and marks of every surface.
Touched(w) ==
  <<w.q, w.rafId, w.rafRequests, w.nextNode, w.children, w.pool, w.active, w.cls,
    w.style, w.anim, w.fades, w.ends, w.fwds, w.delegateActive, w.upgraded, w.hasData,
    w.overlay, w.keyTimers, w.delayed>>

ResolvedBy(w2) == IF Len(w2.q) > Len(q) THEN w2.q[Len(w2.q)].el ELSE "none"

\* C29: in every state in which gestures are not suppressed, a Space or Enter
\* key-down on a target activates the surface that a primary pointer-down on that
\* target activates: the delegate target when an ancestor delegates, else the nearest
\* [wave] ancestor.
C29_KeyResolvesLikePointer ==
  ~rapid =>
    \A pt \in Points, key \in ActivationKeys :
      ResolvedBy(globalKeyHandler(W, HitTest(pt), key))
        = ResolvedBy(globalPointerHandler(W, 0, pt))

\* ------------------------------------------------------------------ C30
\* Point p, relative to el's box, lies within the box.
WithinBounds(el, p) ==
  LET r == RectOf(el)
  IN 0 <= p[1] /\ p[1] <= r.width /\ 0 <= p[2] /\ p[2] <= r.height

\* C30: the activation point of every ripple a frame creates lies within the bounds
\* of the surface it is created on, delegated activations included.
C30_ActivationPointWithinBounds ==
  \A i \in DOMAIN lastFrame : WithinBounds(lastFrame[i].el, lastFrame[i].p)

\* ------------------------------------------------------------------ C31
\* The engine under scroll ticks alone: ticks in rapid succession, their 120 ms
\* timers, presses and frames; no touch gesture takes part.
ScrollInit == Init /\ env = EnvGesture

ScrollNext ==
  \/ PointerDown
  \/ KeyDown
  \/ Frame
  \/ TransitionEnd
  \/ FadeTimer
  \/ KeyTimer
  \/ ScrollRapid
  \/ ScrollTimer

SpecScroll == ScrollInit /\ [][ScrollNext]_vars

\* C31: while the 120 ms window of a rapid scroll tick is still running (its timer
\* has not fired), a primary pointer-down queues no ripple.
C31_SuppressedThroughCooldown ==
  (lastEvent.kind = "pointerdown" /\ lastEvent.primary /\ scrollTimers > 0)
    => lastEvent.queued = "none"

\* ------------------------------------------------------------------ C32
\* The state after a touchend or touchcancel on target has been dispatched.
AfterTouchEnd(type, target) == dispatchRelease(W, ReleasePath(target, type), type, {})

\* C32: in every state with no scroll cooldown running, once the touchend or
\* touchcancel that finishes the gesture has been handled, a primary pointer-down on
\* a surface queues a ripple, with no touchstart and no timer in between.
C32_TouchEndLiftsSuppression ==
  scrollTimers = 0 =>
    \A type \in {"touchend", "touchcancel"}, target \in Elems, pt \in Points :
      ~NoSurfaceFor(HitTest(pt)) =>
        LET w1 == AfterTouchEnd(type, target)
        IN Len(globalPointerHandler(w1, 0, pt).q) > Len(w1.q)

\* ------------------------------------------------------- settings loader
\* autoLoadWaveSettingJSON (hardened, overlay) and autoLoadWakeSettingJSON (legacy).
\* loader.docs is what each candidate location answers; loader.fetched the candidates
\* fetched so far, in order; loader.pending the fetches not yet settled; loader.calls
\* the argument of each call of the callback: 0 for the defaults, i for the document
\* of candidate i; loader.escaped an error that no handler caught.
MaxLoads == 2
LoaderBuilds == {"hardened", "overlay", "legacy"}

\* What a location answers: the fetch rejects; a response that is not ok; a body
\* that is not JSON; or a body that parses to null, a number, an array, an object.
Answers == {"neterr", "notok", "badjson", "null", "number", "array", "object"}

\* pathBases has three entries; the legacy list gets a fourth, next to the script,
\* when the script element is found.
NumCandidates(l) == IF l.build = "legacy" /\ l.script THEN 4 ELSE 3

\* fetch(...).then(r => r.ok ? r.json() : null): the value the next then receives,
\* "rejected" when the chain rejects instead.
Parsed(answer) ==
  CASE answer \in {"neterr", "badjson"} -> "rejected"
    [] answer = "notok" -> "null"
    [] OTHER -> answer

\* json && typeof json === 'object'
Accepts(json) == json \in {"array", "object"}

\* if (callback) callback(...)
callback(l, from) == [l EXCEPT !.calls = Append(@, from)]

tryNext(l, idx) ==
  IF idx > NumCandidates(l)
  THEN callback([l EXCEPT !.loaded = TRUE], l.settings)
  ELSE [l EXCEPT !.pending = @ \cup {idx}, !.fetched = Append(@, idx)]

\* The hardened callback gets {} unless it gets the document; the legacy one always
\* gets the settings object, into which the document was merged.
autoLoadWaveSettingJSON(l) ==
  LET l1 == [l EXCEPT !.loads = @ + 1]
  IN IF l1.loaded
     THEN callback(l1, IF l1.build = "legacy" THEN l1.settings ELSE 0)
     ELSE tryNext(l1, 1)

\* The promise chain of candidate idx without its catch: a rejection is not handled.
settle_noCatch(l, idx) ==
  LET json == Parsed(l.docs[idx])
      l1 == [l EXCEPT !.pending = @ \ {idx}]
  IN IF json = "rejected" THEN [l1 EXCEPT !.escaped = TRUE]
     ELSE IF Accepts(json)
          THEN callback([l1 EXCEPT !.loaded = TRUE,
                                   !.settings = IF l.build = "legacy" THEN idx ELSE @],
                        idx)
          ELSE tryNext(l1, idx + 1)

\* The promise chain of candidate idx settles: the second then, or the catch.
settle(l, idx) ==
  LET json == Parsed(l.docs[idx])
      l1 == [l EXCEPT !.pending = @ \ {idx}]
  IN IF json = "rejected" THEN tryNext(l1, idx + 1)
     ELSE IF Accepts(json)
          THEN callback([l1 EXCEPT !.loaded = TRUE,
                                   !.settings = IF l.build = "legacy" THEN idx ELSE @],
                        idx)
          ELSE tryNext(l1, idx + 1)

CommitLoader(l) ==
  /\ loader' = l
  /\ UNCHANGED <<engineVars, legacyVars, colorVars, calcVars, host>>

\* initWakeEffect calls the loader, once at start-up; a call after the search is
\* over finds waveJsonLoaded set.
LoadSettings ==
  /\ loader.loads < MaxLoads
  /\ loader.pending = {}
  /\ CommitLoader(autoLoadWaveSettingJSON(loader))

\* A pending fetch settles.
FetchSettles ==
  \E idx \in loader.pending : CommitLoader(settle(loader, idx))

LoaderInit ==
  /\ env = EnvKeyFade
  /\ variant = "hardened"
  /\ perf = "high"
  /\ timing = DefaultTiming
  /\ EngineStart
  /\ LegacyInit
  /\ ColorIdle
  /\ CalcIdle
  /\ \E build \in LoaderBuilds, script \in BOOLEAN :
       /\ script => build = "legacy"
       /\ \E docs \in [1..(IF script THEN 4 ELSE 3) -> Answers] :
            loader = [LoaderIdle EXCEPT !.build = build, !.script = script,
                                        !.docs = docs]
  /\ host = HostIdle

LoaderNext ==
  \/ LoadSettings
  \/ FetchSettles

SpecLoader == LoaderInit /\ [][LoaderNext]_vars

\* ------------------------------------------------------------------ C33
\* The search of the loader as the claim describes it, for a given reading of
\* "candidate i yields a document".
SearchFollows(Yields(_)) ==
  LET l == loader
      n == NumCandidates(l)
      Settled(i) == i \in 1..Len(l.fetched) /\ i \notin l.pending
      Over == l.loads > 0 /\ l.pending = {}
             /\ (Len(l.fetched) = n \/ \E i \in 1..n : Settled(i) /\ Yields(i))
  IN /\ \A k \in DOMAIN l.fetched : l.fetched[k] = k
     /\ Cardinality(l.pending) <= 1
     /\ \A k \in DOMAIN l.fetched : \A j \in 1..(k - 1) : Settled(j) /\ ~Yields(j)
     /\ \A i \in 1..n :
          (Settled(i) /\ Yields(i)) =>
            /\ Len(l.fetched) = i
            /\ l.calls # <<>> /\ l.calls[1] = i
     /\ \A i \in 1..(n - 1) : (Settled(i) /\ ~Yields(i)) => Len(l.fetched) > i
     /\ \A c \in DOMAIN l.calls : l.calls[c] # 0 => Yields(l.calls[c])
     /\ (Settled(n) /\ ~Yields(n)) => (l.calls # <<>> /\ l.calls[1] = 0)
     /\ Over => Len(l.calls) = l.loads
     /\ ~Over => l.calls = <<>>
     /\ ~l.escaped

YieldsObject(i) == loader.docs[i] = "object"
YieldsObjectOrArray(i) == loader.docs[i] \in {"object", "array"}

\* C33 (as stated): the candidates are fetched in order, one at a time; the first
\* that yields a JSON object ends the search and is the only document the callback
\* gets; every other answer moves on to the next candidate; when none yields one the
\* callback is called once, with the defaults; no error escapes.
C33_FirstObjectEndsSearch == SearchFollows(YieldsObject)

\* C33 (amended): the same, a candidate that yields a JSON array also ending the
\* search and being passed to the callback.
C33_FirstObjectOrArrayEndsSearch == SearchFollows(YieldsObjectOrArray)

\* A search that went past a failed fetch, a body that did not parse and a null,
\* and ended at the fourth candidate.
C33_Witness ==
  /\ loader.loads > 0 /\ loader.pending = {}
  /\ loader.docs = <<"neterr", "badjson", "null", "object">>
  /\ loader.calls = <<4>>

\* A search in which every candidate failed: one call, with the defaults.
C33_WitnessAllFail ==
  /\ loader.loads = 1 /\ loader.pending = {}
  /\ \A i \in DOMAIN loader.docs : loader.docs[i] \in {"neterr", "notok", "badjson"}
  /\ loader.calls = <<0>>

\* ------------------------------------------------------------------ C34
\* C34: no ripple has two fade invocations that both still await their cleanup: for
\* one activation the fade is started once, and so one cleanup at most hands the node
\* to the pool release, whichever of eviction, release event, clearRipples, delegated
\* release and keyboard timer reach the ripple.
C34_OneFadePerActivation ==
  \A i, j \in 1..Len(fades) :
    (i # j /\ fades[i].node = fades[j].node) => (fades[i].removed \/ fades[j].removed)


\* ------------------------------------------------------------------ C35
\* C35: in every reachable state the idle pool of every surface holds each node at
\* most once.
C35_PoolHoldsNodeOnce ==
  \A el \in Surfaces :
    \A i, j \in 1..Len(pool[el]) : i # j => pool[el][i] # pool[el][j]


\* ------------------------------------------------------------------ C36
\* Node n is an expanding ripple of some surface: attached to it and in its active
\* set, neither fading nor recycled, and not hidden by releaseRippleNode, which in
\* the hardened variant leaves opacity 0 on the node.
ExpandingSomewhere(n) ==
  \E el \in Surfaces :
    /\ n \in Expanding(el)
    /\ n \in Range(active[el])
    /\ variant = "hardened" => "opacity" \notin style[n]

\* No fade invocation that still awaits its cleanup belongs to an expanding ripple:
\* its timer or its transitionend listener would recycle the ripple.
NoLeftoverCleanup ==
  \A i \in 1..Len(fades) : ~fades[i].removed => ~ExpandingSomewhere(fades[i].node)

\* No node is in an idle pool while it is an expanding ripple.
NoPooledExpanding ==
  \A el \in Surfaces : \A n \in Range(pool[el]) : ~ExpandingSomewhere(n)

\* C36: a node that getRippleNode handed out for a new activation has no cleanup of
\* an earlier fade left that would recycle it, hide it or take it out of the active
\* set, and no node is in an idle pool while it is an expanding ripple.
C36_ReusedNodeUndisturbed == NoLeftoverCleanup /\ NoPooledExpanding


\* ------------------------------------------------------------------ C37
\* C37: the global limiter's count equals the number of ripples created and not yet
\* removed; in particular it is never below the number alive.
C37_CountEqualsAlive == globalActiveWavesCount = Cardinality(AliveSpans)


\* ------------------------------------------------------------------ C38
\* A primary pointer-down on el now passes the global limiter and is then rejected,
\* by el's own interval or because el holds a pointer ripple.
RejectedBySurface(el) ==
  /\ allowGlobalRipple(L).ret
  /\ \/ now - lastAllowed[el] < MIN_RIPPLE_INTERVAL
     \/ activeRipples[el] # 0

\* C38: a pointer-down that the surface rejects leaves the global limiter as it was:
\* globalActiveWavesCount and lastGlobalRippleTime are what they were before it.
C38_RejectionKeepsLimiter ==
  \A el \in Surfaces :
    RejectedBySurface(el) =>
      LET l2 == wake_onPointerDown(L, el, 0)
      IN /\ l2.wakeNext = wakeNext
         /\ l2.globalActiveWavesCount = globalActiveWavesCount
         /\ l2.lastGlobalRippleTime = lastGlobalRippleTime


\* ------------------------------------------------------------------ C39
\* C39: whenever no frame callback of the scheduler is pending its queue is empty;
\* and the frame callback runs every task that a task it runs schedules, in that
\* same callback, once, after all the tasks that were queued when it started, and
\* leaves none of them in the queue.
C39_NothingQueuedWithoutFrame ==
  /\ [](rafRequests = 0 => q = <<>>)
  /\ [][rafRequests' < rafRequests =>
          /\ Len(ran') >= Len(q)
          /\ SubSeq(ran', 1, Len(q)) = q
          /\ \A i \in 1..Len(q) :
               (q[i].kind = "probe" /\ q[i].spawn) =>
                 Cardinality({j \in (Len(q) + 1)..Len(ran') :
                                ran'[j] = Probe(q[i].id + 10, FALSE, FALSE)}) = 1
          /\ q' = <<>>]_vars

\* A frame callback has run a task that a task of the same callback scheduled, and
\* nothing is queued or requested after it.
C39_Witness ==
  /\ rafRequests = 0
  /\ q = <<>>
  /\ \E i, j \in 1..Len(ran) :
       /\ i < j
       /\ ran[i].kind = "probe" /\ ran[i].spawn
       /\ ran[j] = Probe(ran[i].id + 10, FALSE, FALSE)


\* ------------------------------------------------------------ attach API
\* attachWave and detachWave of the older copy (wave-effect.ts:453-463), with the
\* listeners they register.  host.listeners[el] is el's list of activation
\* listeners, in registration order; host.rippled is the set of elements with a
\* ripple node under them, and host.held the set of elements on which pointer tasks
\* have registered endRipple closures: the ripples of one element are not told
\* apart, and a fade with its cleanup is collapsed into the removal of the ripple.
\* host.calls[el] and host.last are history: the host calls made on el so far, and
\* the event dispatched last with the elements it queued a task for.
MaxHostQueue == 2

HostPath(target) == IF target = "B" THEN <<"B", "A">> ELSE <<"A">>

Listener(type, name, id) == [type |-> type, name |-> name, id |-> id, capture |-> FALSE]

\* EventTarget.addEventListener: a listener with the same type, callback and capture
\* flag as one already in the list is not added again.
addEventListener(h, el, l) ==
  IF \E i \in 1..Len(h.listeners[el]) : h.listeners[el][i] = l
  THEN h
  ELSE [h EXCEPT !.listeners[el] = Append(@, l)]

removeEventListener(h, el, l) ==
  [h EXCEPT !.listeners[el] = SelectSeq(@, LAMBDA x : x # l)]

attachWave(h, el) ==
  LET h1 == [h EXCEPT !.surface = @ \cup {el}]
      h2 == addEventListener(h1, el, Listener("pointerdown", "onPointerDown", 0))
  IN addEventListener(h2, el, Listener("keydown", "onKeyDown", 0))

\* detachWave without its last line.
detachWave_pointerOnly(h, el) ==
  LET h1 == [h EXCEPT !.surface = @ \ {el}]
  IN removeEventListener(h1, el, Listener("pointerdown", "onPointerDown", 0))

detachWave(h, el) ==
  LET h1 == [h EXCEPT !.surface = @ \ {el}]
      h2 == removeEventListener(h1, el, Listener("pointerdown", "onPointerDown", 0))
  IN removeEventListener(h2, el, Listener("keydown", "onKeyDown", 0))

\* schedule of the older copy (wave-effect.ts:58-69).
older_schedule(h, task) == [h EXCEPT !.q = Append(@, task), !.rafId = TRUE]

\* clearRipples(el): every ripple under el, nested elements included, is faded.
older_clearRipples(h, el) ==
  [h EXCEPT !.rippled = {e \in @ : el \notin Range(HostPath(e))}]

\* One listener of el runs for an event; arg is the button or the key.
older_listener(h, el, l, arg) ==
  CASE l.name = "onPointerDown" ->
         IF arg # 0 THEN h ELSE older_schedule(h, [kind |-> "ptr", el |-> el])
    [] l.name = "onKeyDown" ->
         IF arg \notin {" ", "Enter"} THEN h
         ELSE older_schedule(older_clearRipples(h, el), [kind |-> "key", el |-> el])
    [] OTHER -> h

\* The listeners of one element for an event of the given type, in order.
RECURSIVE older_invoke(_, _, _, _)
older_invoke(h, el, ls, arg) ==
  IF ls = <<>> THEN h
  ELSE older_invoke(older_listener(h, el, Head(ls), arg), el, Tail(ls), arg)

\* The event bubbles from its target through the elements above it.
RECURSIVE older_dispatch(_, _, _, _)
older_dispatch(h, path, type, arg) ==
  IF path = <<>> THEN h
  ELSE LET el == Head(path)
           ls == SelectSeq(h.listeners[el], LAMBDA x : x.type = type)
       IN older_dispatch(older_invoke(h, el, ls, arg), Tail(path), type, arg)

\* The task of onPointerDown or onKeyDown: the ripple is appended; the pointer task
\* registers its endRipple closure for the release events.
older_task(h, t) ==
  LET h1 == [h EXCEPT !.rippled = @ \cup {t.el}]
  IN IF t.kind = "ptr" THEN [h1 EXCEPT !.held = @ \cup {t.el}] ELSE h1

\* A release event reaches the endRipple closures of the elements on its path: they
\* fade their ripples and remove themselves.
older_release(h, path) ==
  LET on == h.held \cap Range(path)
  IN [h EXCEPT !.rippled = @ \ on, !.held = @ \ on]

RECURSIVE older_runQueue(_, _)
older_runQueue(h, i) ==
  IF i > Len(h.q) THEN [h EXCEPT !.q = <<>>, !.rafId = FALSE]
  ELSE older_runQueue(older_task(h, h.q[i]), i + 1)

\* The elements the tasks queued between h and h2 belong to.
HostQueued(h, h2) == {h2.q[i].el : i \in (Len(h.q) + 1)..Len(h2.q)}

HostBounded(h) == Len(h.q) <= MaxHostQueue

CommitHost(h) ==
  /\ host' = h
  /\ UNCHANGED <<engineVars, legacyVars, colorVars, calcVars, loader>>

\* History of the host calls on el: attach, attach again while attached, detach
\* after one attach or after more than one.
HostCall(h, el, name) ==
  [h EXCEPT !.calls[el] =
              CASE name = "attach" /\ @ \in {"attach", "attach twice"} -> "attach twice"
                [] name = "attach" -> "attach"
                [] @ = "attach twice" -> "attach twice, detach"
                [] OTHER -> "detach",
            !.last = NoHostEvent]

HostEvent(h2, type, target) ==
  [h2 EXCEPT !.last = [type |-> type, target |-> target, queued |-> HostQueued(host, h2)]]

\* The host calls attachWave(el).
HostAttach ==
  \E el \in HostEls :
    LET h == HostCall(attachWave(host, el), el, "attach")
    IN h # host /\ CommitHost(h)

\* The host calls detachWave(el).
HostDetach ==
  \E el \in HostEls :
    LET h == HostCall(detachWave(host, el), el, "detach")
    IN h # host /\ CommitHost(h)

\* pointerdown on an element.
HostPointerDown ==
  \E target \in HostEls, button \in {0, 2} :
    LET h == HostEvent(older_dispatch(host, HostPath(target), "pointerdown", button),
                       "pointerdown", target)
    IN HostBounded(h) /\ CommitHost(h)

\* keydown on an element.
HostKeyDown ==
  \E target \in HostEls, key \in {"Enter", "a"} :
    LET h == HostEvent(older_dispatch(host, HostPath(target), "keydown", key),
                       "keydown", target)
    IN HostBounded(h) /\ CommitHost(h)

\* pointerup on an element while an endRipple closure is registered on its path.
HostPointerUp ==
  \E target \in HostEls :
    /\ host.held \cap Range(HostPath(target)) # {}
    /\ CommitHost(HostEvent(older_release(host, HostPath(target)), "pointerup", target))

\* The frame callback of the scheduler.
HostFrame ==
  /\ host.rafId
  /\ CommitHost([older_runQueue(host, 1) EXCEPT !.last = NoHostEvent])

AttachInit ==
  /\ env = EnvKeyFade
  /\ variant = "hardened"
  /\ perf = "high"
  /\ timing = DefaultTiming
  /\ EngineStart
  /\ LegacyInit
  /\ ColorIdle
  /\ CalcIdle
  /\ GlueIdle

AttachNext ==
  \/ HostAttach
  \/ HostDetach
  \/ HostPointerDown
  \/ HostKeyDown
  \/ HostPointerUp
  \/ HostFrame

SpecAttach == AttachInit /\ [][AttachNext]_vars

\* ------------------------------------------------------------------ C40
\* The library's pointerdown and keydown listeners on el.
ActivationListeners(h, el) ==
  SelectSeq(h.listeners[el], LAMBDA x : x.name \in {"onPointerDown", "onKeyDown"})

\* No event dispatched in h, on el or inside it, queues a task for el.
NoRippleFrom(h, el) ==
  \A target \in HostEls :
    /\ \A button \in {0, 2} :
         el \notin HostQueued(h, older_dispatch(h, HostPath(target), "pointerdown", button))
    /\ \A key \in {"Enter", " ", "a"} :
         el \notin HostQueued(h, older_dispatch(h, HostPath(target), "keydown", key))

\* C40: in every reachable state, attachWave(el) followed by detachWave(el) leaves
\* el without the surface class and without a pointerdown or keydown listener of the
\* library, an element that was not attached before being as it was before, and no
\* later event queues a ripple for el; attachWave called twice leaves what one call
\* leaves, every listener being in the list once; and an event dispatched while el is
\* detached has queued nothing for el.
C40_DetachUndoesAttach ==
  /\ \A el \in HostEls :
       LET h1 == attachWave(host, el)
           h2 == detachWave(h1, el)
       IN /\ el \notin h2.surface
          /\ ActivationListeners(h2, el) = <<>>
          /\ ActivationListeners(host, el) = <<>> =>
               h2 = [host EXCEPT !.surface = @ \ {el}]
          /\ NoRippleFrom(h2, el)
          /\ attachWave(h1, el) = h1
          /\ Len(ActivationListeners(h1, el)) = 2
          /\ detachWave(attachWave(h1, el), el) = h2
  /\ \A el \in HostEls :
       \A i, j \in 1..Len(host.listeners[el]) :
         i # j => host.listeners[el][i] # host.listeners[el][j]
  /\ \A el \in HostEls :
       host.calls[el] \in {"detach", "attach twice, detach"} => el \notin host.last.queued

\* attachWave twice and detachWave once on A, then a primary pointer-down on A that
\* queued nothing, while ripples that were created before the detach are still there.
C40_Witness ==
  /\ host.calls["A"] = "attach twice, detach"
  /\ host.last.type = "pointerdown" /\ host.last.target = "A"
  /\ host.last.queued = {}
  /\ "A" \in host.rippled

====
